---------------------------- MODULE Spec2Model ----------------------------
(***************************************************************************)
(* A model of the decision engine of the cross-exchange arbitrage bot:     *)
(* the decision loop of main.py, the scanner and the trade lifecycle of    *)
(* arbitrage.py, the Risk Guard of risk.py and the parameter cache of      *)
(* param_store.py.                                                         *)
(*                                                                         *)
(* Units.  The code computes in floats; the model computes in integers:    *)
(*   - every percentage is held in hundredths of a percent (0.26 % = 26);  *)
(*   - prices and quote-currency amounts are whole USD;                    *)
(*   - base-asset amounts (position sizes, base balances) are held in      *)
(*     tenths of a unit (5.0 BTC = 50);                                    *)
(*   - profits and the daily PnL accumulator are held in 1/10000 USD       *)
(*     (one tenth of a unit times one thousandth of a USD);                *)
(*   - time is in seconds.                                                 *)
(* Float rounding is not modelled.                                         *)
(***************************************************************************)
EXTENDS Integers, Sequences, FiniteSets, TLC

(***************************************************************************)
(* Bounds of the model.                                                    *)
(***************************************************************************)
\* cycles of the decision loop that are explored
MaxCycles == 2
\* scans of a symbol in which the market shows an exploitable spread
MaxOpps == 2
\* calls an embedding environment makes to the Risk Guard's entry points
MaxExtCalls == 2
\* clock advances, record_* calls and reports of the sliding-window harness
MaxTicks == 2
MaxRecords == 2
MaxReports == 2
\* calls of find_arbitrage_opportunities in the scanner harness
MaxScanCalls == 1
\* SpecBreaker: calls of record_api_error made between two cycles
MaxApiErrorCalls == 20
\* SpecParams: parameter updates made through the dashboard, calls of
\* reload_params, reads of the cache
MaxParamUpdates == 2
MaxReloads == 2
MaxReads == 2

(***************************************************************************)
(* config.py                                                               *)
(***************************************************************************)
SUPPORTED_EXCHANGES == <<"kraken", "okx">>
TRADING_PAIRS == <<"BTC/USDT", "ETH/USDT">>
MIN_SPREAD_PERCENT == 30
MAX_SLIPPAGE_PERCENT == 15
REFRESH_INTERVAL_SECONDS == 5
DEFAULT_FEE_PERCENT == 10
MAX_CAPITAL_PER_TRADE_USD == 500
MAX_DAILY_LOSS_USD == 1000
MAX_OPEN_TRADES == 5
MAX_BALANCE_USAGE_PER_EXCHANGE == 50
MAX_TRADES_PER_HOUR == 50
MAX_SYMBOL_EXPOSURE_USD == 2000
VOLATILITY_THRESHOLD_PERCENT == 200
SAFETY_MARGIN_SPREAD == 15
MAX_API_ERRORS_PER_WINDOW == 20
API_ERROR_WINDOW_SECONDS == 300
NO_DATA_ALERT_SECONDS == 120
SHADOW_TRADING_ENABLED == TRUE

\* taker fee of a venue, rate * 100, in hundredths of a percent
EXCHANGE_FEES ==
  [binance |-> 6, kraken |-> 26, okx |-> 10, bybit |-> 6]

\* arbitrage.py, risk.py, param_store.py, main.py
MAX_TRADE_HISTORY == 100
TRADE_WINDOW_SECONDS == 3600
PRICE_HISTORY_MAX_SIZE == 10
RELOAD_INTERVAL == 30
BALANCE_REFRESH_INTERVAL == 6
BREAKER_SLEEP_SECONDS == 60

Exchanges == {SUPPORTED_EXCHANGES[i] : i \in DOMAIN SUPPORTED_EXCHANGES}
Symbols == {TRADING_PAIRS[i] : i \in DOMAIN TRADING_PAIRS}

\* db.py DEFAULT_PARAMETERS: value and inclusive [min, max] per parameter,
\* with the updated_at column init_parameters gives each row
DEFAULT_PARAMETERS ==
  [MAX_CAPITAL_PER_TRADE_USD |->
     [value |-> 500, min |-> 1, max |-> 10000, updated_at |-> 0],
   MAX_DAILY_LOSS_USD |->
     [value |-> 1000, min |-> 5, max |-> 50000, updated_at |-> 0],
   MAX_TRADES_PER_HOUR |->
     [value |-> 50, min |-> 1, max |-> 500, updated_at |-> 0],
   MAX_SYMBOL_EXPOSURE_USD |->
     [value |-> 2000, min |-> 10, max |-> 100000, updated_at |-> 0],
   MAX_BALANCE_USAGE_PER_EXCHANGE |->
     [value |-> 50, min |-> 5, max |-> 90, updated_at |-> 0],
   MIN_SPREAD_PERCENT |->
     [value |-> 30, min |-> 5, max |-> 500, updated_at |-> 0],
   VOLATILITY_THRESHOLD_PERCENT |->
     [value |-> 200, min |-> 50, max |-> 1000, updated_at |-> 0],
   SAFETY_MARGIN_SPREAD |->
     [value |-> 15, min |-> 5, max |-> 500, updated_at |-> 0]]

ParamNames == DOMAIN DEFAULT_PARAMETERS

(***************************************************************************)
(* State.                                                                  *)
(***************************************************************************)
VARIABLES
  now,                    \* the clock: time.time(), datetime.utcnow()
  pc,                     \* position of the decision loop in main()
  loop_counter,           \* main.py loop_counter
  \* risk.py module state
  TRADING_ENABLED, api_errors, trades_this_hour, last_opportunity_time,
  last_alert_message, symbol_disabled_until, price_history,
  risk_manager,           \* the RiskManager instance of main()
  \* durable parameter table and the ParameterStore of this process
  db_parameters, store,
  \* main.py locals
  balances, balance_refresh_counter, no_data_alert_sent, opportunities,
  scan_idx, exec_idx, executed_count,
  \* find_arbitrage_opportunities locals of the symbol scanned last
  tickers, evaluated,
  \* execute_arbitrage_opportunity locals
  trade_id, buy_order,
  \* arbitrage.py module state, durable trades, shadow store, alerts sent
  open_trades, trade_history, db_trades, shadow_trades, alerts,
  \* observation of the run: orders submitted, trades created, terminal
  \* transitions made, trades archived, last should_trade_now result
  orders, created, terminal_events, archived, last_stn, ticker_fetches,
  cycle_start,            \* the kill-switch and the clock as a cycle began
  \* environment budgets
  arb_seen, ext_calls,
  \* harness state: the report of the last harness call (sliding-window
  \* report, update request, scan or stall log), position sizer call
  last_report, ticks, records, sizer_call, scan_calls,
  \* harness state: a thread inside ParameterStore.reload_params, and a
  \* thread reading the cache through get_param or get_all
  reloader, reader

riskVars == <<TRADING_ENABLED, api_errors, trades_this_hour,
              last_opportunity_time, last_alert_message,
              symbol_disabled_until, price_history>>
paramVars == <<db_parameters, store>>
loopVars == <<balances, balance_refresh_counter, no_data_alert_sent,
              opportunities, scan_idx, exec_idx, executed_count>>
scanVars == <<tickers, evaluated>>
execVars == <<trade_id, buy_order>>
tradeVars == <<open_trades, trade_history, db_trades>>
obsVars == <<orders, created, terminal_events, archived, last_stn,
             ticker_fetches, cycle_start>>
envVars == <<arb_seen, ext_calls>>
harnessVars == <<last_report, ticks, records, sizer_call, scan_calls,
                 reloader, reader>>

vars == <<now, pc, loop_counter, riskVars, risk_manager, paramVars, loopVars,
          scanVars, execVars, tradeVars, shadow_trades, alerts, obsVars,
          envVars, harnessVars>>


(***************************************************************************)
(* Helpers.                                                                *)
(***************************************************************************)
Min2(a, b) == IF a <= b THEN a ELSE b
Min3(a, b, c) == Min2(a, Min2(b, c))
SeqToSet(s) == {s[i] : i \in DOMAIN s}
SetMin(S) == CHOOSE x \in S : \A y \in S : x <= y
SetMax(S) == CHOOSE x \in S : \A y \in S : x >= y
\* the last n elements of s (all of s when it is shorter)
LastN(s, n) == IF Len(s) <= n THEN s ELSE SubSeq(s, Len(s) - n + 1, Len(s))

\* utils.extract_base_quote: symbol.split("/")
extract_base_quote(symbol) ==
  CASE symbol = "BTC/USDT" -> <<"BTC", "USDT">>
    [] symbol = "ETH/USDT" -> <<"ETH", "USDT">>
    [] OTHER -> <<"", "">>

(***************************************************************************)
(* risk.py: sliding windows, kill-switch, per-symbol guard.                *)
(***************************************************************************)
\* a pruning that drops at most the oldest stale timestamp
PruneWindow_DropOne(window, cutoff) ==
  IF window # <<>> /\ Head(window) <= cutoff THEN Tail(window) ELSE window

\* deque([t for t in window if t > cutoff])
PruneWindow(window, cutoff) == SelectSeq(window, LAMBDA t : t > cutoff)

\* check_api_error_limit: the window it leaves behind, and its result
ApiErrorsPruned(window_seconds) ==
  PruneWindow(api_errors, now - window_seconds)

\* a limit that is only exceeded, never reached
check_api_error_limit_Lax(max_errors, window_seconds) ==
  ~ (Len(ApiErrorsPruned(window_seconds)) > max_errors)

check_api_error_limit(max_errors, window_seconds) ==
  ~ (Len(ApiErrorsPruned(window_seconds)) >= max_errors)

\* check_trades_per_hour_limit / get_trades_this_hour
TradesPruned == PruneWindow(trades_this_hour, now - TRADE_WINDOW_SECONDS)

check_trades_per_hour_limit(max_trades) ==
  ~ (Len(TradesPruned) >= max_trades)

get_trades_this_hour == Len(TradesPruned)

\* get_api_error_count: len(_api_errors), no pruning
get_api_error_count == Len(api_errors)

\* a loss limit that trips only below -max_daily_loss_usd
check_daily_loss_limit_Strict(current_daily_pnl_usd) ==
  ~ (current_daily_pnl_usd < - (risk_manager.max_daily_loss_usd * 10000))

\* RiskManager.check_daily_loss_limit (the limit is in USD, the PnL in
\* 1/10000 USD)
check_daily_loss_limit(current_daily_pnl_usd) ==
  ~ (current_daily_pnl_usd <= - (risk_manager.max_daily_loss_usd * 10000))

\* a cap that is only exceeded, never reached
can_open_new_trade_Lax(open_trades_count) ==
  ~ (open_trades_count > risk_manager.max_open_trades)

\* RiskManager.can_open_new_trade
can_open_new_trade(open_trades_count) ==
  ~ (open_trades_count >= risk_manager.max_open_trades)

\* a volatility check that already fails at the threshold
check_volatility_AtThreshold(last_prices, threshold_percent) ==
  IF Len(last_prices) < 2 THEN TRUE
  ELSE LET min_price == SetMin(SeqToSet(last_prices))
           max_price == SetMax(SeqToSet(last_prices))
       IN IF min_price <= 0 THEN TRUE
          ELSE ~ ((max_price - min_price) * 10000
                    >= threshold_percent * min_price)

\* RiskManager.check_volatility: (max - min) / min * 100 > threshold
check_volatility(last_prices, threshold_percent) ==
  IF Len(last_prices) < 2 THEN TRUE
  ELSE LET min_price == SetMin(SeqToSet(last_prices))
           max_price == SetMax(SeqToSet(last_prices))
       IN IF min_price <= 0 THEN TRUE
          ELSE ~ ((max_price - min_price) * 10000
                    > threshold_percent * min_price)

\* a price history that keeps every price
update_price_history_Unbounded(hist, symbol, price) ==
  LET old == IF symbol \in DOMAIN hist THEN hist[symbol] ELSE <<>>
  IN [s \in DOMAIN hist \cup {symbol} |->
        IF s = symbol THEN Append(old, price) ELSE hist[s]]

\* update_price_history: deque(maxlen=max_size).append(price)
update_price_history(hist, symbol, price) ==
  LET old == IF symbol \in DOMAIN hist THEN hist[symbol] ELSE <<>>
      new == LastN(Append(old, price), PRICE_HISTORY_MAX_SIZE)
  IN [s \in DOMAIN hist \cup {symbol} |-> IF s = symbol THEN new ELSE hist[s]]

\* set_trading_enabled: the message it logs and stores
TradingMessage(enabled, reason) ==
  <<IF enabled THEN "ENABLED" ELSE "DISABLED", reason>>

\* RiskManager.should_trade_now: its result and the guard state it leaves
\* behind (the cooldown map, the trade-rate window, the error window)
GuardState(ok, disabled, trades, errors) ==
  [ok |-> ok, disabled |-> disabled, trades |-> trades, errors |-> errors]

RemoveKey(f, k) == [x \in DOMAIN f \ {k} |-> f[x]]

\* a guard that does not look at the kill-switch
ShouldTradeNow_NoKillSwitch(symbol) ==
  GuardState(TRUE, symbol_disabled_until, trades_this_hour, api_errors)

\* a should_trade_now without the volatility check
should_trade_now_NoVolatility(symbol) ==
  IF ~ TRADING_ENABLED
  THEN GuardState(FALSE, symbol_disabled_until, trades_this_hour, api_errors)
  ELSE IF symbol \in DOMAIN symbol_disabled_until
          /\ now < symbol_disabled_until[symbol]
  THEN GuardState(FALSE, symbol_disabled_until, trades_this_hour, api_errors)
  ELSE LET dis == RemoveKey(symbol_disabled_until, symbol)
           tr == TradesPruned
           er == ApiErrorsPruned(risk_manager.api_error_window)
       IN IF ~ check_daily_loss_limit(risk_manager.current_daily_pnl_usd)
          THEN GuardState(FALSE, dis, trades_this_hour, api_errors)
          ELSE IF ~ check_trades_per_hour_limit(risk_manager.max_trades_per_hour)
          THEN GuardState(FALSE, dis, tr, api_errors)
          ELSE IF ~ check_api_error_limit(risk_manager.max_api_errors,
                                          risk_manager.api_error_window)
          THEN GuardState(FALSE, dis, tr, er)
          ELSE GuardState(TRUE, dis, tr, er)

\* a should_trade_now for which a cooldown still holds at its expiry
should_trade_now_LateExpiry(symbol) ==
  IF ~ TRADING_ENABLED
  THEN GuardState(FALSE, symbol_disabled_until, trades_this_hour, api_errors)
  ELSE IF symbol \in DOMAIN symbol_disabled_until
          /\ now <= symbol_disabled_until[symbol]
  THEN GuardState(FALSE, symbol_disabled_until, trades_this_hour, api_errors)
  ELSE LET dis == RemoveKey(symbol_disabled_until, symbol)
           tr == TradesPruned
           er == ApiErrorsPruned(risk_manager.api_error_window)
       IN IF ~ check_daily_loss_limit(risk_manager.current_daily_pnl_usd)
          THEN GuardState(FALSE, dis, trades_this_hour, api_errors)
          ELSE IF ~ check_trades_per_hour_limit(risk_manager.max_trades_per_hour)
          THEN GuardState(FALSE, dis, tr, api_errors)
          ELSE IF ~ check_api_error_limit(risk_manager.max_api_errors,
                                          risk_manager.api_error_window)
          THEN GuardState(FALSE, dis, tr, er)
          ELSE GuardState(
                 (symbol \in DOMAIN price_history)
                   => check_volatility(price_history[symbol],
                                       risk_manager.volatility_threshold),
                 dis, tr, er)

\* RiskManager.should_trade_now
should_trade_now(symbol) ==
  IF ~ TRADING_ENABLED
  THEN GuardState(FALSE, symbol_disabled_until, trades_this_hour, api_errors)
  ELSE IF symbol \in DOMAIN symbol_disabled_until
          /\ now < symbol_disabled_until[symbol]
  THEN GuardState(FALSE, symbol_disabled_until, trades_this_hour, api_errors)
  ELSE LET dis == RemoveKey(symbol_disabled_until, symbol)
           tr == TradesPruned
           er == ApiErrorsPruned(risk_manager.api_error_window)
       IN IF ~ check_daily_loss_limit(risk_manager.current_daily_pnl_usd)
          THEN GuardState(FALSE, dis, trades_this_hour, api_errors)
          ELSE IF ~ check_trades_per_hour_limit(risk_manager.max_trades_per_hour)
          THEN GuardState(FALSE, dis, tr, api_errors)
          ELSE IF ~ check_api_error_limit(risk_manager.max_api_errors,
                                          risk_manager.api_error_window)
          THEN GuardState(FALSE, dis, tr, er)
          ELSE GuardState(
                 (symbol \in DOMAIN price_history)
                   => check_volatility(price_history[symbol],
                                       risk_manager.volatility_threshold),
                 dis, tr, er)

\* a sizer without the final min() over the two caps
calculate_position_size_Unclamped(available_balance_quote, best_spread_percent, buy_price) ==
  IF buy_price <= 0 THEN 0
  ELSE LET max_from_capital ==
             (risk_manager.max_capital_per_trade_usd * 10) \div buy_price
           max_from_balance ==
             (available_balance_quote
                * risk_manager.max_balance_usage_per_exchange * 10)
               \div (100 * buy_price)
           base_size == Min2(max_from_capital, max_from_balance)
       IN IF best_spread_percent > 100 THEN (base_size * 12) \div 10
          ELSE IF best_spread_percent < 50 THEN (base_size * 8) \div 10
          ELSE base_size

\* RiskManager.calculate_position_size, in tenths of a base unit
calculate_position_size(available_balance_quote, best_spread_percent, buy_price) ==
  IF buy_price <= 0 THEN 0
  ELSE LET max_from_capital ==
             (risk_manager.max_capital_per_trade_usd * 10) \div buy_price
           max_from_balance ==
             (available_balance_quote
                * risk_manager.max_balance_usage_per_exchange * 10)
               \div (100 * buy_price)
           base_size == Min2(max_from_capital, max_from_balance)
           scaled_size ==
             IF best_spread_percent > 100 THEN (base_size * 12) \div 10
             ELSE IF best_spread_percent < 50 THEN (base_size * 8) \div 10
             ELSE base_size
       IN Min3(scaled_size, max_from_capital, max_from_balance)


(***************************************************************************)
(* arbitrage.py: the scanner.                                              *)
(***************************************************************************)
\* get_exchange_fee(exchange_id, "taker") * 100
get_exchange_fee(exchange_id) ==
  IF exchange_id \in DOMAIN EXCHANGE_FEES THEN EXCHANGE_FEES[exchange_id]
  ELSE 10

\* an effective minimum that takes the safety margin from the cache
calculate_effective_min_spread_Cached(buy_exchange, sell_exchange, avg_slippage) ==
  get_exchange_fee(buy_exchange) + get_exchange_fee(sell_exchange)
    + avg_slippage + store.params["SAFETY_MARGIN_SPREAD"]

\* an effective minimum without the safety margin
calculate_effective_min_spread_NoMargin(buy_exchange, sell_exchange, avg_slippage) ==
  get_exchange_fee(buy_exchange) + get_exchange_fee(sell_exchange)
    + avg_slippage

\* calculate_effective_min_spread
calculate_effective_min_spread(buy_exchange, sell_exchange, avg_slippage) ==
  get_exchange_fee(buy_exchange) + get_exchange_fee(sell_exchange)
    + avg_slippage + SAFETY_MARGIN_SPREAD

\* what ExchangeManager.get_ticker returns: None (ok = FALSE) or bid / ask,
\* where a bid or ask of 0 also stands for a missing one
NoTicker == [ok |-> FALSE, bid |-> 0, ask |-> 0]
Quote(bid, ask) == [ok |-> TRUE, bid |-> bid, ask |-> ask]
\* ticker and ticker.get("bid") and ticker.get("ask")
ValidTicker(t) == t.ok /\ t.bid # 0 /\ t.ask # 0

\* the list `tickers` of one symbol: the venues with a valid quote, in the
\* order of exchange_manager.exchange_ids
RECURSIVE CollectTickers(_, _)
CollectTickers(tk, i) ==
  IF i > Len(SUPPORTED_EXCHANGES) THEN <<>>
  ELSE LET ex == SUPPORTED_EXCHANGES[i]
       IN (IF ValidTicker(tk[ex])
           THEN <<[exchange |-> ex, bid |-> tk[ex].bid, ask |-> tk[ex].ask]>>
           ELSE <<>>) \o CollectTickers(tk, i + 1)

\* the price history after the mid-price of every valid quote was appended
RECURSIVE FeedPriceHistory(_, _, _)
FeedPriceHistory(hist, symbol, tks) ==
  IF tks = <<>> THEN hist
  ELSE FeedPriceHistory(
         update_price_history(hist, symbol,
                              (Head(tks).bid + Head(tks).ask) \div 2),
         symbol, Tail(tks))

\* the body of the pair loop: the opportunity record of buying on b's ask
\* and selling on s's bid
PairOpportunity(symbol, b, s) ==
  LET buy_price == b.ask
      sell_price == s.bid
      raw_spread_percent == ((sell_price - buy_price) * 10000) \div buy_price
      buy_fee == get_exchange_fee(b.exchange)
      sell_fee == get_exchange_fee(s.exchange)
  IN [symbol |-> symbol,
      buy_exchange_id |-> b.exchange,
      sell_exchange_id |-> s.exchange,
      buy_price |-> buy_price,
      sell_price |-> sell_price,
      raw_spread_percent |-> raw_spread_percent,
      net_spread_percent |-> raw_spread_percent - (buy_fee + sell_fee),
      buy_fee_percent |-> buy_fee,
      sell_fee_percent |-> sell_fee,
      effective_min_spread |->
        calculate_effective_min_spread(b.exchange, s.exchange,
                                       MAX_SLIPPAGE_PERCENT),
      timestamp |-> now]

\* the pairs (i, j), i # j, buy price > 0, in the order of the two loops,
\* each with the opportunity record computed for it and whether it is emitted
EvaluatePairs(symbol, tks) ==
  LET n == Len(tks)
      all == [k \in 1..(n * n) |->
                <<((k - 1) \div n) + 1, ((k - 1) % n) + 1>>]
      kept == SelectSeq(all, LAMBDA p : p[1] # p[2] /\ tks[p[1]].ask > 0)
  IN [k \in 1..Len(kept) |->
        LET o == PairOpportunity(symbol, tks[kept[k][1]], tks[kept[k][2]])
        IN [opp |-> o,
            emitted |-> (o.net_spread_percent >= o.effective_min_spread)]]

EmittedOpportunities(evals) ==
  LET e == SelectSeq(evals, LAMBDA x : x.emitted)
  IN [k \in 1..Len(e) |-> e[k].opp]

(***************************************************************************)
(* param_store.py and db.py: the parameter cache.                          *)
(***************************************************************************)
\* get_all_parameters: the rows of the table (name -> value)
get_all_parameters == [n \in DOMAIN db_parameters |-> db_parameters[n].value]

\* a reload that empties the cache when nothing was fetched
reload_params_ClearOnEmpty(fetched) ==
  [params |-> fetched, last_reload |-> now]

\* a reload that writes the fetched values into the cached mapping one key
\* at a time
reload_params_PerKey(fetched) ==
  IF DOMAIN fetched # {}
  THEN LET differing == {n \in DOMAIN fetched :
                           n \notin DOMAIN store.params
                             \/ store.params[n] # fetched[n]}
           n == CHOOSE k \in differing : TRUE
       IN [params |-> IF differing = {} THEN store.params
                      ELSE [k \in DOMAIN store.params \cup {n} |->
                              IF k = n THEN fetched[n] ELSE store.params[k]],
           last_reload |-> now]
  ELSE store

\* ParameterStore.reload_params with the fetched rows: the store it leaves
\* behind, and the value it returns
reload_params(fetched) ==
  IF DOMAIN fetched # {}
  THEN [params |-> fetched, last_reload |-> now]
  ELSE store

reload_result(fetched) == DOMAIN fetched # {}

\* a maybe_reload that waits until more than the interval has elapsed
maybe_reload_Strict(fetched) ==
  IF now - store.last_reload > RELOAD_INTERVAL
  THEN reload_params(fetched)
  ELSE store

\* ParameterStore.maybe_reload, `fetched` being the rows its reload_params
\* call would get from the table
maybe_reload(fetched) ==
  IF now - store.last_reload >= RELOAD_INTERVAL
  THEN reload_params(fetched)
  ELSE store

\* ParameterStore.get_param(name, default) with a default supplied
get_param(st, name, default) ==
  IF name \in DOMAIN st.params THEN st.params[name] ELSE default

\* db.get_parameter(name): the row of the table, <<>> for None (no such
\* row, or the SELECT raised)
get_parameter(name, select_ok) ==
  IF select_ok /\ name \in DOMAIN db_parameters
  THEN <<db_parameters[name]>>
  ELSE <<>>

\* an update_parameter without the range check
update_parameter_NoRange(name, new_value) ==
  IF name \notin DOMAIN db_parameters
  THEN [ok |-> FALSE, message |-> "Unknown parameter",
        table |-> db_parameters]
  ELSE [ok |-> TRUE, message |-> "Parameter updated",
        table |-> [db_parameters EXCEPT ![name].value = new_value,
                                        ![name].updated_at = now]]

\* db.update_parameter(name, new_value): the (success, message) it returns
\* and the table it leaves behind
update_parameter(name, new_value) ==
  IF name \notin DOMAIN db_parameters
  THEN [ok |-> FALSE, message |-> "Unknown parameter",
        table |-> db_parameters]
  ELSE IF ~ (db_parameters[name].min <= new_value
               /\ new_value <= db_parameters[name].max)
  THEN [ok |-> FALSE, message |-> "Value out of allowed range",
        table |-> db_parameters]
  ELSE [ok |-> TRUE, message |-> "Parameter updated",
        table |-> [db_parameters EXCEPT ![name].value = new_value,
                                        ![name].updated_at = now]]

\* api.py api_update_param up to its update_parameter call, for a JSON
\* body with a name and a value: is_number tells whether float(value)
\* succeeds, new_value is its result.  The HTTP status, the body
\* (success, message) and the table left behind.
api_update_param(name, is_number, new_value) ==
  IF ~ is_number
  THEN [status |-> 400, ok |-> FALSE, message |-> "Value must be a number",
        table |-> db_parameters]
  ELSE IF get_parameter(name, TRUE) = <<>>
  THEN [status |-> 404, ok |-> FALSE, message |-> "Unknown parameter",
        table |-> db_parameters]
  ELSE LET updated == update_parameter(name, new_value)
       IN [status |-> 200, ok |-> updated.ok, message |-> updated.message,
           table |-> updated.table]

\* a get_param that prefers the default to the cached value
get_param_call_DefaultFirst(params, name, default, row) ==
  IF default # <<>>
  THEN [value |-> default[1], params |-> params, fetches |-> 0]
  ELSE IF name \in DOMAIN params
  THEN [value |-> params[name], params |-> params, fetches |-> 0]
  ELSE [value |-> 0, params |-> params, fetches |-> 1]

\* ParameterStore.get_param(name, default) in full: `default` is <<>> for
\* None and <<d>> for a default d, `row` is what get_parameter returns if
\* it is called.  The value returned, the cached mapping left behind, and
\* the number of get_parameter calls made.
get_param_call(params, name, default, row) ==
  IF name \in DOMAIN params
  THEN [value |-> params[name], params |-> params, fetches |-> 0]
  ELSE IF default # <<>>
  THEN [value |-> default[1], params |-> params, fetches |-> 0]
  ELSE IF row # <<>>
  THEN [value |-> row[1].value,
        params |-> [n \in DOMAIN params \cup {name} |->
                      IF n = name THEN row[1].value ELSE params[n]],
        fetches |-> 1]
  ELSE [value |-> 0, params |-> params, fetches |-> 1]

(***************************************************************************)
(* arbitrage.py: the trade lifecycle.                                      *)
(***************************************************************************)
NoOrder == [status |-> "none", exchange |-> "", side |-> "", amount |-> 0]
\* an order record returned by create_order
OrderRecord(exchange, side, amount) ==
  [status |-> "ok", exchange |-> exchange, side |-> side, amount |-> amount]
\* an {"error": ...} payload
ErrorPayload(exchange, side, amount) ==
  [status |-> "error", exchange |-> exchange, side |-> side, amount |-> amount]

\* an archival that never evicts
ArchiveTrade_NoEviction(history, t) == Append(history, t)

\* trade_history.append(t); if len(trade_history) > MAX: trade_history.pop(0)
ArchiveTrade(history, t) ==
  LET h == Append(history, t)
  IN IF Len(h) > MAX_TRADE_HISTORY THEN Tail(h) ELSE h

RECURSIVE ArchiveAll(_, _)
ArchiveAll(history, ts) ==
  IF ts = <<>> THEN history
  ELSE ArchiveAll(ArchiveTrade(history, Head(ts)), Tail(ts))

IsTerminal(t) == t.status \in {"completed", "failed"}

\* prune_completed_trades: the open list and the history it leaves behind
PruneOpen == SelectSeq(open_trades, LAMBDA t : ~ IsTerminal(t))
PruneHistory ==
  ArchiveAll(trade_history, SelectSeq(open_trades, IsTerminal))

\* get_open_trades_count
get_open_trades_count ==
  Len(SelectSeq(open_trades, LAMBDA t : t.status = "pending"))

\* the first trade of open_trades with this id, as the loops of
\* _mark_trade_failed_and_prune and _complete_trade_and_archive find it
FindOpen(id) ==
  LET hits == SelectSeq(open_trades, LAMBDA t : t.id = id)
  IN IF hits = <<>> THEN <<>> ELSE <<Head(hits)>>

\* open_trades once the loop has mutated, in place, the first trade with
\* this id into t
ReplaceOpen(id, t) ==
  LET k == SetMin({i \in DOMAIN open_trades : open_trades[i].id = id})
  IN [open_trades EXCEPT ![k] = t]

\* a removal that leaves the trade in open_trades
RemoveOpen_Keep(trades, id) == trades

\* [t for t in open_trades if t.get("id") != trade_id]
RemoveOpen(trades, id) == SelectSeq(trades, LAMBDA t : t.id # id)

\* a marking that forgets the leg that had succeeded
MarkFailed_NoPartial(t, failure_reason, failed_order, successful_order) ==
  [t EXCEPT !.status = "failed",
            !.failure_reason = failure_reason,
            !.failed_order = failed_order,
            !.completed_at = now]

\* the trade as _mark_trade_failed_and_prune leaves it
MarkFailed(t, failure_reason, failed_order, successful_order) ==
  [t EXCEPT !.status = "failed",
            !.failure_reason = failure_reason,
            !.failed_order = failed_order,
            !.partial_order =
              IF successful_order.status # "none" THEN successful_order
              ELSE @,
            !.completed_at = now]

\* the trade as _complete_trade_and_archive leaves it
MarkCompleted(t, b_order, s_order, net_profit) ==
  [t EXCEPT !.status = "completed",
            !.buy_order = b_order,
            !.sell_order = s_order,
            !.estimated_profit_usd = net_profit,
            !.completed_at = now]

\* a profit whose fee cost takes the default fee for a fraction, not a
\* percentage
NetProfit_FeeAsFraction(position_size, buy_price, sell_price) ==
  LET estimated_cost == position_size * buy_price
      estimated_revenue == position_size * sell_price
  IN ((estimated_revenue - estimated_cost) * 1000)
       - ((estimated_cost + estimated_revenue) * DEFAULT_FEE_PERCENT * 10)

\* a profit that leaves the fee cost out
NetProfit_NoFee(position_size, buy_price, sell_price) ==
  ((position_size * sell_price) - (position_size * buy_price)) * 1000

\* net_profit of execute_arbitrage_opportunity, in 1/10000 USD
NetProfit(position_size, buy_price, sell_price) ==
  LET estimated_cost == position_size * buy_price
      estimated_revenue == position_size * sell_price
  IN ((estimated_revenue - estimated_cost) * 1000)
       - (((estimated_cost + estimated_revenue) * DEFAULT_FEE_PERCENT) \div 10)


(***************************************************************************)
(* The environment of the decision loop: what the venues answer.           *)
(***************************************************************************)
Assets == {"USDT", "BTC", "ETH"}
\* balance.get("free", {}) of one venue; {} (a failed fetch) reads as 0
EmptyBalance == [a \in Assets |-> 0]
FullBalance == [USDT |-> 1000, BTC |-> 100, ETH |-> 100]
LowBaseBalance == [USDT |-> 1000, BTC |-> 20, ETH |-> 20]
BalanceScenarios ==
  {[kraken |-> FullBalance, okx |-> FullBalance],
   [kraken |-> LowBaseBalance, okx |-> LowBaseBalance],
   [kraken |-> EmptyBalance, okx |-> FullBalance]}

\* the quotes of one symbol on the venues at one scan
FlatMarket == [kraken |-> Quote(100, 100), okx |-> Quote(100, 100)]
VenueDown == [kraken |-> NoTicker, okx |-> Quote(100, 100)]
ArbMarket == [kraken |-> Quote(100, 100), okx |-> Quote(102, 102)]
WideArbMarket == [kraken |-> Quote(100, 100), okx |-> Quote(104, 104)]
ArbScenarios == {ArbMarket, WideArbMarket}
TickerScenarios == {FlatMarket, VenueDown} \cup ArbScenarios

\* what create_order does: returns an order record, returns an error
\* payload, or raises
OrderOutcomes == {"ok", "error", "exception"}

\* what insert_trade does: stores the record, or raises (the exception is
\* logged by _complete_trade_and_archive and goes no further)
InsertOutcomes == {"stored", "exception"}

\* how long a sleep of the loop takes: its duration, or an hour longer
SleepDelays(base) == {base, base + TRADE_WINDOW_SECONDS}

\* values of MAX_TRADES_PER_HOUR the parameter table may hold at start
StoredTradesPerHour == {1, 50}

(***************************************************************************)
(* Init: the state main() is in when it enters its loop.                   *)
(***************************************************************************)
EmptyMap == [x \in {} |-> 0]

\* the RiskManager main() constructs from the store and config
NewRiskManager(st) ==
  [max_capital_per_trade_usd |->
     get_param(st, "MAX_CAPITAL_PER_TRADE_USD", MAX_CAPITAL_PER_TRADE_USD),
   max_daily_loss_usd |->
     get_param(st, "MAX_DAILY_LOSS_USD", MAX_DAILY_LOSS_USD),
   max_open_trades |-> MAX_OPEN_TRADES,
   max_balance_usage_per_exchange |->
     get_param(st, "MAX_BALANCE_USAGE_PER_EXCHANGE",
               MAX_BALANCE_USAGE_PER_EXCHANGE),
   max_trades_per_hour |->
     get_param(st, "MAX_TRADES_PER_HOUR", MAX_TRADES_PER_HOUR),
   max_api_errors |-> MAX_API_ERRORS_PER_WINDOW,
   api_error_window |-> API_ERROR_WINDOW_SECONDS,
   volatility_threshold |->
     get_param(st, "VOLATILITY_THRESHOLD_PERCENT",
               VOLATILITY_THRESHOLD_PERCENT),
   max_symbol_exposure_usd |->
     get_param(st, "MAX_SYMBOL_EXPOSURE_USD", MAX_SYMBOL_EXPOSURE_USD),
   current_daily_pnl_usd |-> 0]

\* lines 123-127 of main(): the live values copied into the RiskManager
RefreshRiskManager(rm, st) ==
  [rm EXCEPT
     !.max_capital_per_trade_usd =
       get_param(st, "MAX_CAPITAL_PER_TRADE_USD", MAX_CAPITAL_PER_TRADE_USD),
     !.max_daily_loss_usd =
       get_param(st, "MAX_DAILY_LOSS_USD", MAX_DAILY_LOSS_USD),
     !.max_trades_per_hour =
       get_param(st, "MAX_TRADES_PER_HOUR", MAX_TRADES_PER_HOUR),
     !.max_symbol_exposure_usd =
       get_param(st, "MAX_SYMBOL_EXPOSURE_USD", MAX_SYMBOL_EXPOSURE_USD),
     !.volatility_threshold =
       get_param(st, "VOLATILITY_THRESHOLD_PERCENT",
                 VOLATILITY_THRESHOLD_PERCENT)]

\* init_parameters: the table, holding the defaults unless edited earlier
InitialTables ==
  {[DEFAULT_PARAMETERS EXCEPT !["MAX_TRADES_PER_HOUR"].value = v] :
     v \in StoredTradesPerHour}

NoReport == [op |-> "none", arg |-> 0, ok |-> TRUE, result |-> 0,
             counted |-> <<>>, window |-> 0, at |-> 0, records |-> 0,
             repeats |-> FALSE, n |-> 0]
\* no reload_params call was made yet; `installed` collects the mappings
\* the cache was given as a whole (the one of initialize() first)
NoReload(params) ==
  [phase |-> "idle", outcome |-> "", rows |-> EmptyMap, result |-> FALSE,
   before |-> [params |-> EmptyMap, last_reload |-> 0], calls |-> 0,
   installed |-> {params}, attempted |-> FALSE]
\* no read of the cache was made yet
NoRead ==
  [phase |-> "idle", op |-> "none", name |-> "", found |-> FALSE,
   checked_in |-> EmptyMap, value |-> 0, seen |-> EmptyMap, reads |-> 0,
   default |-> <<>>, fetches |-> 0]
NoSizerCall == [called |-> FALSE, balance |-> 0, spread |-> 0, price |-> 0,
                result |-> 0]

InitWith(tables) ==
  /\ now = 0
  /\ loop_counter = 0
  /\ TRADING_ENABLED = TRUE
  /\ api_errors = <<>>
  /\ trades_this_hour = <<>>
  /\ last_opportunity_time = 0
  /\ last_alert_message = <<"", "">>
  /\ symbol_disabled_until = EmptyMap
  /\ price_history = EmptyMap
  /\ db_parameters \in tables
  /\ store = [params |-> get_all_parameters, last_reload |-> 0]
  /\ risk_manager = NewRiskManager(store)
  /\ balances = [e \in Exchanges |-> EmptyBalance]
  /\ balance_refresh_counter = 0
  /\ no_data_alert_sent = FALSE
  /\ opportunities = <<>>
  /\ scan_idx = 1
  /\ exec_idx = 1
  /\ executed_count = 0
  /\ tickers = <<>>
  /\ evaluated = <<>>
  /\ trade_id = <<>>
  /\ buy_order = NoOrder
  /\ open_trades = <<>>
  /\ db_trades = <<>>
  /\ shadow_trades = <<>>
  /\ alerts = <<>>
  /\ orders = <<>>
  /\ last_stn = [symbol |-> "", ok |-> FALSE, enabled |-> TRUE, at |-> 0,
                 n |-> 0]
  /\ ticker_fetches = <<>>
  /\ cycle_start = [enabled |-> TRUE, at |-> 0]
  /\ arb_seen = 0
  /\ ext_calls = 0
  /\ last_report = NoReport
  /\ ticks = 0
  /\ records = 0
  /\ scan_calls = 0
  /\ reloader = NoReload(store.params)
  /\ reader = NoRead

InitCommon == InitWith(InitialTables) /\ sizer_call = NoSizerCall

\* no trade was created yet
EmptyHistory ==
  /\ trade_history = <<>>
  /\ created = <<>>
  /\ terminal_events = <<>>
  /\ archived = <<>>

Init ==
  /\ InitCommon
  /\ pc = "loop_top"
  /\ EmptyHistory


(***************************************************************************)
(* main.py: the decision loop, one action per step of a cycle.             *)
(***************************************************************************)
\* set_trading_enabled(enabled, reason) followed by send_alert(...)
Alert(subject) == [subject |-> subject, at |-> now, cycle |-> loop_counter]

\* lines 114-127: loop_counter += 1, prune_completed_trades(),
\* maybe_reload_params(), the live values copied into the RiskManager
LoopTopWithin(max_cycles) ==
  /\ pc = "loop_top"
  /\ loop_counter < max_cycles
  /\ loop_counter' = loop_counter + 1
  /\ open_trades' = PruneOpen
  /\ trade_history' = PruneHistory
  /\ archived' = archived \o [k \in 1..Len(SelectSeq(open_trades, IsTerminal)) |->
                               SelectSeq(open_trades, IsTerminal)[k].id]
  /\ store' = maybe_reload(get_all_parameters)
  /\ risk_manager' = RefreshRiskManager(risk_manager, store')
  /\ cycle_start' = [enabled |-> TRADING_ENABLED, at |-> now]
  /\ pc' = "api_check"
  /\ UNCHANGED <<now, riskVars, db_parameters, loopVars, scanVars, execVars,
                 db_trades, shadow_trades, alerts, orders, created,
                 terminal_events, last_stn, ticker_fetches, envVars,
                 harnessVars>>

LoopTop == LoopTopWithin(MaxCycles)

\* lines 129-136: the API-error circuit breaker
ApiErrorCheck ==
  /\ pc = "api_check"
  /\ api_errors' = ApiErrorsPruned(API_ERROR_WINDOW_SECONDS)
  /\ IF ~ check_api_error_limit(MAX_API_ERRORS_PER_WINDOW,
                                API_ERROR_WINDOW_SECONDS)
     THEN /\ TRADING_ENABLED' = FALSE
          /\ last_alert_message' =
               TradingMessage(FALSE, "API error limit exceeded")
          /\ alerts' = Append(alerts, Alert("Circuit Breaker Triggered"))
          /\ pc' = "breaker_sleep"
     ELSE /\ UNCHANGED <<TRADING_ENABLED, last_alert_message, alerts>>
          /\ pc' = "enabled_check"
  /\ UNCHANGED <<now, loop_counter, trades_this_hour, last_opportunity_time,
                 symbol_disabled_until, price_history, risk_manager,
                 paramVars, loopVars, scanVars, execVars, tradeVars,
                 shadow_trades, obsVars, envVars, harnessVars>>

\* lines 138-141: the kill-switch
TradingEnabledCheck ==
  /\ pc = "enabled_check"
  /\ pc' = IF ~ TRADING_ENABLED THEN "sleep" ELSE "balances"
  /\ UNCHANGED <<now, loop_counter, riskVars, risk_manager, paramVars,
                 loopVars, scanVars, execVars, tradeVars, shadow_trades,
                 alerts, obsVars, envVars, harnessVars>>

\* a snapshot that is refreshed every time the step is reached
RefreshBalances_Always(fetched) ==
  /\ pc = "balances"
  /\ balances' = fetched
  /\ balance_refresh_counter' = 1
  /\ pc' = "loss_check"
  /\ UNCHANGED <<now, loop_counter, riskVars, risk_manager, paramVars,
                 no_data_alert_sent, opportunities, scan_idx, exec_idx,
                 executed_count, scanVars, execVars, tradeVars,
                 shadow_trades, alerts, obsVars, envVars, harnessVars>>

\* lines 143-153: the balance snapshot, refreshed every 6th time the step is
\* reached.  ExchangeManager.get_balances swallows its own exceptions and
\* returns {}, so the except branch of main() is never taken.
RefreshBalances(fetched) ==
  /\ pc = "balances"
  /\ IF balance_refresh_counter % BALANCE_REFRESH_INTERVAL = 0
     THEN /\ balances' = fetched
          /\ balance_refresh_counter' = 1
     ELSE /\ balances' = balances
          /\ balance_refresh_counter' = balance_refresh_counter + 1
  /\ pc' = "loss_check"
  /\ UNCHANGED <<now, loop_counter, riskVars, risk_manager, paramVars,
                 no_data_alert_sent, opportunities, scan_idx, exec_idx,
                 executed_count, scanVars, execVars, tradeVars,
                 shadow_trades, alerts, obsVars, envVars, harnessVars>>

\* lines 155-162: the daily loss limit; on a trip the loop is left (break)
DailyLossCheck ==
  /\ pc = "loss_check"
  /\ IF ~ check_daily_loss_limit(risk_manager.current_daily_pnl_usd)
     THEN /\ TRADING_ENABLED' = FALSE
          /\ last_alert_message' =
               TradingMessage(FALSE, "Daily loss limit exceeded")
          /\ alerts' = Append(alerts, Alert("Circuit Breaker - Daily Loss"))
          /\ pc' = "halted"
          /\ UNCHANGED <<opportunities, scan_idx>>
     ELSE /\ UNCHANGED <<TRADING_ENABLED, last_alert_message, alerts>>
          /\ opportunities' = <<>>
          /\ scan_idx' = 1
          /\ pc' = "scan"
  /\ UNCHANGED <<now, loop_counter, api_errors, trades_this_hour,
                 last_opportunity_time, symbol_disabled_until, price_history,
                 risk_manager, paramVars, balances, balance_refresh_counter,
                 no_data_alert_sent, exec_idx, executed_count, scanVars,
                 execVars, tradeVars, shadow_trades, obsVars, envVars,
                 harnessVars>>

\* find_arbitrage_opportunities, one iteration of its loop over
\* trading_pairs: should_trade_now, the ticker fetches, the pair loop
ScanBody(tk, after) ==
  LET symbol == TRADING_PAIRS[scan_idx]
      g == should_trade_now(symbol)
      tks == CollectTickers(tk, 1)
      evals == IF Len(tks) < 2 THEN <<>> ELSE EvaluatePairs(symbol, tks)
      found == EmittedOpportunities(evals)
  IN /\ symbol_disabled_until' = g.disabled
     /\ trades_this_hour' = g.trades
     /\ api_errors' = g.errors
     /\ last_stn' = [symbol |-> symbol, ok |-> g.ok,
                      enabled |-> TRADING_ENABLED, at |-> now,
                      n |-> last_stn.n + 1]
     /\ IF g.ok
        THEN /\ tickers' = tks
             /\ ticker_fetches' =
                  Append(ticker_fetches,
                         [symbol |-> symbol, cycle |-> loop_counter,
                          at |-> now])
             /\ price_history' = FeedPriceHistory(price_history, symbol, tks)
             /\ evaluated' = evals
             /\ opportunities' = opportunities \o found
             /\ last_opportunity_time' =
                  IF found # <<>> THEN now ELSE last_opportunity_time
             /\ arb_seen' = IF tk \in ArbScenarios THEN arb_seen + 1
                            ELSE arb_seen
        ELSE /\ tickers' = <<>>
             /\ evaluated' = <<>>
             /\ UNCHANGED <<ticker_fetches, price_history, opportunities,
                            last_opportunity_time, arb_seen>>
     /\ scan_idx' = scan_idx + 1
     /\ pc' = IF scan_idx + 1 > Len(TRADING_PAIRS) THEN after ELSE "scan"

ScanSymbol(tk) ==
  /\ pc = "scan"
  /\ scan_idx <= Len(TRADING_PAIRS)
  /\ (tk \in ArbScenarios) => arb_seen < MaxOpps
  /\ ScanBody(tk, "stall")
  /\ UNCHANGED <<now, loop_counter, TRADING_ENABLED, last_alert_message,
                 risk_manager, paramVars, balances, balance_refresh_counter,
                 no_data_alert_sent, exec_idx, executed_count, execVars,
                 tradeVars, shadow_trades, alerts, orders, created,
                 terminal_events, archived, cycle_start, ext_calls,
                 harnessVars>>

\* a stall test that is already true when the timeout has just elapsed
check_no_data_timeout_AtLeast(timeout_seconds) ==
  now - last_opportunity_time >= timeout_seconds

\* check_no_data_timeout
check_no_data_timeout(timeout_seconds) ==
  now - last_opportunity_time > timeout_seconds

\* lines 174-183: the stall detector and its one-shot alert
StallBody(after) ==
  /\ IF check_no_data_timeout(NO_DATA_ALERT_SECONDS)
     THEN /\ alerts' = IF ~ no_data_alert_sent
                       THEN Append(alerts, Alert("No Data Alert"))
                       ELSE alerts
          /\ no_data_alert_sent' = TRUE
     ELSE /\ alerts' = alerts
          /\ no_data_alert_sent' = FALSE
  /\ pc' = after

\* a stall step after which the cycle goes straight to the executions
StallCheck_SkipShadow ==
  /\ pc = "stall"
  /\ StallBody("exec")
  /\ UNCHANGED <<now, loop_counter, riskVars, risk_manager, paramVars,
                 balances, balance_refresh_counter, opportunities, scan_idx,
                 exec_idx, executed_count, scanVars, execVars, tradeVars,
                 shadow_trades, obsVars, envVars, harnessVars>>

\* the stall step of the loop
StallCheck ==
  /\ pc = "stall"
  /\ StallBody("shadow")
  /\ UNCHANGED <<now, loop_counter, riskVars, risk_manager, paramVars,
                 balances, balance_refresh_counter, opportunities, scan_idx,
                 exec_idx, executed_count, scanVars, execVars, tradeVars,
                 shadow_trades, obsVars, envVars, harnessVars>>


(***************************************************************************)
(* shadow.py                                                               *)
(***************************************************************************)
\* simulate_arbitrage(opp, balances, config): <<>> for None, else <<record>>
simulate_arbitrage(opp) ==
  IF opp.buy_price <= 0 \/ opp.sell_price <= 0 THEN <<>>
  ELSE LET position_size == (MAX_CAPITAL_PER_TRADE_USD * 10) \div opp.buy_price
           estimated_cost == position_size * opp.buy_price
           estimated_revenue == position_size * opp.sell_price
           total_fees ==
             (estimated_cost * get_exchange_fee(opp.buy_exchange_id)
                + estimated_revenue * get_exchange_fee(opp.sell_exchange_id))
               \div 10
           estimated_slippage ==
             ((estimated_cost + estimated_revenue) * MAX_SLIPPAGE_PERCENT)
               \div 20
       IN <<[timestamp |-> now,
             symbol |-> opp.symbol,
             buy_exchange |-> opp.buy_exchange_id,
             sell_exchange |-> opp.sell_exchange_id,
             buy_price |-> opp.buy_price,
             sell_price |-> opp.sell_price,
             amount |-> position_size,
             gross_spread_percent |-> opp.raw_spread_percent,
             net_spread_percent |-> opp.net_spread_percent,
             fees_estimated |-> total_fees,
             pnl_usd |-> ((estimated_revenue - estimated_cost) * 1000)
                           - total_fees - estimated_slippage,
             slippage_estimated |-> estimated_slippage]>>

\* a shadow pass that stops after the first opportunity
ShadowAll_FirstOnly(opps) ==
  IF opps = <<>> THEN <<>> ELSE simulate_arbitrage(Head(opps))

RECURSIVE ShadowAll(_)
ShadowAll(opps) ==
  IF opps = <<>> THEN <<>>
  ELSE simulate_arbitrage(Head(opps)) \o ShadowAll(Tail(opps))

\* lines 185-189 of main(): one shadow record per opportunity
ShadowRecord ==
  /\ pc = "shadow"
  /\ shadow_trades' = IF SHADOW_TRADING_ENABLED
                      THEN shadow_trades \o ShadowAll(opportunities)
                      ELSE shadow_trades
  /\ exec_idx' = 1
  /\ executed_count' = 0
  /\ pc' = "exec"
  /\ UNCHANGED <<now, loop_counter, riskVars, risk_manager, paramVars,
                 balances, balance_refresh_counter, no_data_alert_sent,
                 opportunities, scan_idx, scanVars, execVars, tradeVars,
                 alerts, obsVars, envVars, harnessVars>>

(***************************************************************************)
(* main.py lines 193-213 and execute_arbitrage_opportunity.                *)
(***************************************************************************)
\* a sizing that does not look at the base balance of the sell venue
SizedPosition_NoBaseClamp(opp) ==
  LET bq == extract_base_quote(opp.symbol)
      quote_available == balances[opp.buy_exchange_id][bq[2]]
      sized == calculate_position_size(quote_available,
                                       opp.net_spread_percent, opp.buy_price)
  IN IF quote_available <= 0 THEN <<>>
     ELSE IF sized <= 0 THEN <<>>
     ELSE <<sized>>

\* position size of lines 147-172: <<>> when the function returns None
\* before sizing is done, else <<size>>
SizedPosition(opp) ==
  LET bq == extract_base_quote(opp.symbol)
      quote_available == balances[opp.buy_exchange_id][bq[2]]
      base_available == balances[opp.sell_exchange_id][bq[1]]
      sized == calculate_position_size(quote_available,
                                       opp.net_spread_percent, opp.buy_price)
      position_size == IF base_available < sized THEN base_available
                       ELSE sized
  IN IF quote_available <= 0 THEN <<>>
     ELSE IF sized <= 0 THEN <<>>
     ELSE IF position_size <= 0 THEN <<>>
     ELSE <<position_size>>

\* lines 174-179: the degraded spread check
DegradedSpreadOk(opp) ==
  ~ (opp.net_spread_percent - MAX_SLIPPAGE_PERCENT < MIN_SPREAD_PERCENT)

PendingTrade(opp, position_size) ==
  [id |-> <<opp.symbol, opp.buy_exchange_id, opp.sell_exchange_id, now>>,
   symbol |-> opp.symbol,
   buy_exchange |-> opp.buy_exchange_id,
   sell_exchange |-> opp.sell_exchange_id,
   position_size |-> position_size,
   buy_price |-> opp.buy_price,
   sell_price |-> opp.sell_price,
   timestamp |-> now,
   status |-> "pending",
   failure_reason |-> "",
   failed_order |-> NoOrder,
   partial_order |-> NoOrder,
   buy_order |-> NoOrder,
   sell_order |-> NoOrder,
   estimated_profit_usd |-> 0,
   completed_at |-> <<>>]

\* the execution-time rate check of main(), line 199
RateCheckLimit == MAX_TRADES_PER_HOUR

\* One iteration of the loop over opportunities up to the creation of the
\* pending trade: the open-trade cap, the rate check, and lines 134-198 of
\* execute_arbitrage_opportunity.  When the loop is left, line 215 logs
\* get_trades_this_hour(), which prunes the window.
ExecuteBegin ==
  /\ pc = "exec"
  /\ trades_this_hour' = TradesPruned
  /\ IF exec_idx > Len(opportunities)
        \/ ~ can_open_new_trade(get_open_trades_count)
        \/ get_trades_this_hour >= RateCheckLimit
     THEN /\ pc' = "sleep"
          /\ UNCHANGED <<exec_idx, open_trades, created, trade_id>>
     ELSE LET opp == opportunities[exec_idx]
              sz == SizedPosition(opp)
          IN IF sz = <<>> \/ ~ DegradedSpreadOk(opp)
             THEN /\ exec_idx' = exec_idx + 1
                  /\ pc' = "exec"
                  /\ UNCHANGED <<open_trades, created, trade_id>>
             ELSE /\ open_trades' = Append(open_trades,
                                           PendingTrade(opp, sz[1]))
                  /\ created' = Append(created, PendingTrade(opp, sz[1]).id)
                  /\ trade_id' = PendingTrade(opp, sz[1]).id
                  /\ pc' = "buy"
                  /\ UNCHANGED exec_idx
  /\ UNCHANGED <<now, loop_counter, TRADING_ENABLED, api_errors,
                 last_opportunity_time, last_alert_message,
                 symbol_disabled_until, price_history, risk_manager,
                 paramVars, balances, balance_refresh_counter,
                 no_data_alert_sent, opportunities, scan_idx, executed_count,
                 scanVars, buy_order, trade_history, db_trades,
                 shadow_trades, alerts, orders, terminal_events, archived,
                 last_stn, ticker_fetches, cycle_start, envVars,
                 harnessVars>>


\* a failure handling after which the loop records the trade in the
\* trailing-hour window
FailTrade_Counted(failure_reason, failed_order, successful_order) ==
  LET hit == FindOpen(trade_id)
      t == MarkFailed(hit[1], failure_reason, failed_order, successful_order)
  IN /\ open_trades' = RemoveOpen(ReplaceOpen(trade_id, t), trade_id)
     /\ trade_history' = ArchiveTrade(trade_history, t)
     /\ terminal_events' = Append(terminal_events, <<trade_id, "failed">>)
     /\ archived' = Append(archived, trade_id)
     /\ exec_idx' = exec_idx + 1
     /\ buy_order' = NoOrder
     /\ pc' = "exec"
     /\ trades_this_hour' = Append(trades_this_hour, now)
     /\ UNCHANGED <<db_trades, risk_manager, executed_count>>

\* a failure handling after which the call goes on to the sell leg
FailTrade_GoesOn(failure_reason, failed_order, successful_order) ==
  /\ pc' = "sell"
  /\ buy_order' = failed_order
  /\ UNCHANGED <<open_trades, trade_history, terminal_events, archived,
                 exec_idx, db_trades, risk_manager, trades_this_hour,
                 executed_count>>

\* _mark_trade_failed_and_prune(trade_id, reason, failed_order, successful)
\* as a step of the loop: the trade found in open_trades is marked, taken
\* out of open_trades and archived; execute returns None
FailTrade(failure_reason, failed_order, successful_order) ==
  LET hit == FindOpen(trade_id)
  IN /\ IF hit = <<>>
        THEN UNCHANGED <<open_trades, trade_history, terminal_events,
                         archived>>
        ELSE LET t == MarkFailed(hit[1], failure_reason, failed_order,
                                 successful_order)
             IN /\ open_trades' = RemoveOpen(ReplaceOpen(trade_id, t),
                                             trade_id)
                /\ trade_history' = ArchiveTrade(trade_history, t)
                /\ terminal_events' =
                     Append(terminal_events, <<trade_id, "failed">>)
                /\ archived' = Append(archived, trade_id)
     /\ exec_idx' = exec_idx + 1
     /\ buy_order' = NoOrder
     /\ pc' = "exec"
     /\ UNCHANGED <<db_trades, risk_manager, trades_this_hour,
                    executed_count>>

\* lines 200-216: the buy leg
SubmitBuy(outcome) ==
  /\ pc = "buy"
  /\ LET t == FindOpen(trade_id)[1]
         sent == OrderRecord(t.buy_exchange, "buy", t.position_size)
     IN /\ orders' = Append(orders, [trade |-> trade_id, order |-> sent,
                                     outcome |-> outcome, at |-> now,
                                     cycle |-> loop_counter])
        /\ CASE outcome = "exception" ->
                  FailTrade("buy_exception",
                            ErrorPayload(t.buy_exchange, "buy",
                                         t.position_size), NoOrder)
             [] outcome = "error" ->
                  FailTrade("buy_failed",
                            ErrorPayload(t.buy_exchange, "buy",
                                         t.position_size), NoOrder)
             [] OTHER ->
                  /\ buy_order' = sent
                  /\ pc' = "sell"
                  /\ UNCHANGED <<open_trades, trade_history, db_trades,
                                 terminal_events, archived, exec_idx,
                                 risk_manager, trades_this_hour,
                                 executed_count>>
  /\ UNCHANGED <<now, loop_counter, TRADING_ENABLED, api_errors,
                 last_opportunity_time, last_alert_message,
                 symbol_disabled_until, price_history, paramVars, balances,
                 balance_refresh_counter, no_data_alert_sent, opportunities,
                 scan_idx, scanVars, trade_id, shadow_trades, alerts,
                 created, last_stn, ticker_fetches, cycle_start, envVars,
                 harnessVars>>

\* the record _complete_trade_and_archive hands to insert_trade
TradeRecord(t) ==
  [timestamp |-> now,
   symbol |-> t.symbol,
   buy_exchange |-> t.buy_exchange,
   sell_exchange |-> t.sell_exchange,
   buy_price |-> t.buy_price,
   sell_price |-> t.sell_price,
   amount |-> t.position_size,
   pnl_usd |-> t.estimated_profit_usd,
   trade_id |-> t.id]

\* lines 238-254 and _complete_trade_and_archive, then lines 211-213 of
\* main(): the trade is completed and archived, its record is handed to
\* insert_trade, the daily PnL is updated and the trade is recorded in the
\* trailing-hour window
CompleteTrade(s_order) ==
  LET hit == FindOpen(trade_id)
  IN /\ IF hit = <<>>
        THEN UNCHANGED <<open_trades, trade_history, db_trades,
                         terminal_events, archived, risk_manager,
                         trades_this_hour, executed_count>>
        ELSE LET net_profit == NetProfit(hit[1].position_size,
                                         hit[1].buy_price, hit[1].sell_price)
                 t == MarkCompleted(hit[1], buy_order, s_order, net_profit)
             IN /\ open_trades' = RemoveOpen(ReplaceOpen(trade_id, t),
                                             trade_id)
                /\ trade_history' = ArchiveTrade(trade_history, t)
                /\ \E insert \in InsertOutcomes :
                     db_trades' = IF insert = "stored"
                                  THEN Append(db_trades, TradeRecord(t))
                                  ELSE db_trades
                /\ terminal_events' =
                     Append(terminal_events, <<trade_id, "completed">>)
                /\ archived' = Append(archived, trade_id)
                /\ risk_manager' =
                     [risk_manager EXCEPT !.current_daily_pnl_usd =
                                            @ + net_profit]
                /\ trades_this_hour' = Append(trades_this_hour, now)
                /\ executed_count' = executed_count + 1
     /\ exec_idx' = exec_idx + 1
     /\ buy_order' = NoOrder
     /\ pc' = "exec"

\* lines 218-236: the sell leg
SubmitSell(outcome) ==
  /\ pc = "sell"
  /\ LET t == FindOpen(trade_id)[1]
         sent == OrderRecord(t.sell_exchange, "sell", t.position_size)
     IN /\ orders' = Append(orders, [trade |-> trade_id, order |-> sent,
                                     outcome |-> outcome, at |-> now,
                                     cycle |-> loop_counter])
        /\ CASE outcome = "exception" ->
                  FailTrade("sell_exception",
                            ErrorPayload(t.sell_exchange, "sell",
                                         t.position_size), buy_order)
             [] outcome = "error" ->
                  FailTrade("sell_failed",
                            ErrorPayload(t.sell_exchange, "sell",
                                         t.position_size), buy_order)
             [] OTHER -> CompleteTrade(sent)
  /\ UNCHANGED <<now, loop_counter, TRADING_ENABLED, api_errors,
                 last_opportunity_time, last_alert_message,
                 symbol_disabled_until, price_history, paramVars, balances,
                 balance_refresh_counter, no_data_alert_sent, opportunities,
                 scan_idx, scanVars, trade_id, shadow_trades, alerts,
                 created, last_stn, ticker_fetches, cycle_start, envVars,
                 harnessVars>>

\* time.sleep(REFRESH_INTERVAL_SECONDS) of lines 140 and 222, time.sleep(60)
\* of line 135; the loop then starts its next cycle
SleepWithin(delay, max_cycles) ==
  /\ pc \in {"sleep", "breaker_sleep"}
  /\ delay \in SleepDelays(IF pc = "sleep" THEN REFRESH_INTERVAL_SECONDS
                           ELSE BREAKER_SLEEP_SECONDS)
  /\ loop_counter < max_cycles
  /\ now' = now + delay
  /\ pc' = "loop_top"
  /\ UNCHANGED <<loop_counter, riskVars, risk_manager, paramVars, loopVars,
                 scanVars, execVars, tradeVars, shadow_trades, alerts,
                 obsVars, envVars, harnessVars>>

Sleep(delay) == SleepWithin(delay, MaxCycles)

LoopNext ==
  \/ LoopTop
  \/ ApiErrorCheck
  \/ TradingEnabledCheck
  \/ \E fetched \in BalanceScenarios : RefreshBalances(fetched)
  \/ DailyLossCheck
  \/ \E tk \in TickerScenarios : ScanSymbol(tk)
  \/ StallCheck
  \/ ShadowRecord
  \/ ExecuteBegin
  \/ \E outcome \in OrderOutcomes : SubmitBuy(outcome)
  \/ \E outcome \in OrderOutcomes : SubmitSell(outcome)
  \/ \E delay \in SleepDelays(REFRESH_INTERVAL_SECONDS)
                    \cup SleepDelays(BREAKER_SLEEP_SECONDS) : Sleep(delay)

Next == LoopNext

Spec == Init /\ [][Next]_vars


(***************************************************************************)
(* SpecHist: the decision loop entered with a trade history that already   *)
(* holds MAX_TRADE_HISTORY - 1 trades, each of which failed on its buy leg *)
(* in an earlier cycle (such trades touch neither the daily PnL, nor the   *)
(* trade-rate window, nor durable storage).                                *)
(***************************************************************************)
PriorTrade(k) ==
  LET at == - (REFRESH_INTERVAL_SECONDS * (MAX_TRADE_HISTORY - k))
  IN [id |-> <<"BTC/USDT", "kraken", "okx", at>>,
      symbol |-> "BTC/USDT",
      buy_exchange |-> "kraken",
      sell_exchange |-> "okx",
      position_size |-> 50,
      buy_price |-> 100,
      sell_price |-> 102,
      timestamp |-> at,
      status |-> "failed",
      failure_reason |-> "buy_failed",
      failed_order |-> ErrorPayload("kraken", "buy", 50),
      partial_order |-> NoOrder,
      buy_order |-> NoOrder,
      sell_order |-> NoOrder,
      estimated_profit_usd |-> 0,
      completed_at |-> <<at>>]

PriorTrades == [k \in 1..(MAX_TRADE_HISTORY - 1) |-> PriorTrade(k)]

InitHist ==
  /\ InitCommon
  /\ pc = "loop_top"
  /\ trade_history = PriorTrades
  /\ created = [k \in DOMAIN PriorTrades |-> PriorTrades[k].id]
  /\ terminal_events = [k \in DOMAIN PriorTrades |->
                          <<PriorTrades[k].id, "failed">>]
  /\ archived = [k \in DOMAIN PriorTrades |-> PriorTrades[k].id]

SpecHist == InitHist /\ [][Next]_vars

(***************************************************************************)
(* SpecOpen: the decision loop inside an environment that calls the Risk   *)
(* Guard's public entry points between two cycles (while the loop sleeps): *)
(* set_trading_enabled, RiskManager.update_daily_pnl, should_trade_now.    *)
(***************************************************************************)
\* set_trading_enabled(enabled, reason) called from outside the loop
ExtSetTradingEnabled(enabled) ==
  /\ pc = "sleep"
  /\ ext_calls < MaxExtCalls
  /\ ext_calls' = ext_calls + 1
  /\ TRADING_ENABLED' = enabled
  /\ last_alert_message' = TradingMessage(enabled, "operator")
  /\ UNCHANGED <<now, pc, loop_counter, api_errors, trades_this_hour,
                 last_opportunity_time, symbol_disabled_until, price_history,
                 risk_manager, paramVars, loopVars, scanVars, execVars,
                 tradeVars, shadow_trades, alerts, obsVars, arb_seen,
                 harnessVars>>

\* RiskManager.update_daily_pnl(pnl_change) called from outside the loop
ExtUpdateDailyPnl(pnl_change) ==
  /\ pc = "sleep"
  /\ ext_calls < MaxExtCalls
  /\ ext_calls' = ext_calls + 1
  /\ risk_manager' = [risk_manager EXCEPT !.current_daily_pnl_usd =
                                            @ + pnl_change]
  /\ UNCHANGED <<now, pc, loop_counter, riskVars, paramVars, loopVars,
                 scanVars, execVars, tradeVars, shadow_trades, alerts,
                 obsVars, arb_seen, harnessVars>>

\* RiskManager.should_trade_now(symbol) called from outside the loop
ExtShouldTradeNow(symbol) ==
  /\ pc = "sleep"
  /\ ext_calls < MaxExtCalls
  /\ ext_calls' = ext_calls + 1
  /\ LET g == should_trade_now(symbol)
     IN /\ symbol_disabled_until' = g.disabled
        /\ trades_this_hour' = g.trades
        /\ api_errors' = g.errors
        /\ last_stn' = [symbol |-> symbol, ok |-> g.ok,
                      enabled |-> TRADING_ENABLED, at |-> now,
                      n |-> last_stn.n + 1]
  /\ UNCHANGED <<now, pc, loop_counter, TRADING_ENABLED,
                 last_opportunity_time, last_alert_message, price_history,
                 risk_manager, paramVars, loopVars, scanVars, execVars,
                 tradeVars, shadow_trades, alerts, orders, created,
                 terminal_events, archived, ticker_fetches, cycle_start,
                 arb_seen, harnessVars>>

\* results handed to update_daily_pnl: -999 USD, -2 USD and -1 USD
ExtPnlChanges == {-9990000, -20000, -10000}

ExtNext ==
  \/ \E enabled \in BOOLEAN : ExtSetTradingEnabled(enabled)
  \/ \E pnl_change \in ExtPnlChanges : ExtUpdateDailyPnl(pnl_change)
  \/ \E symbol \in Symbols : ExtShouldTradeNow(symbol)

NextOpen == LoopNext \/ ExtNext

SpecOpen == Init /\ [][NextOpen]_vars

(***************************************************************************)
(* SpecRisk: the sliding-window entry points of risk.py called in any      *)
(* order while the clock advances: record_api_error, record_trade, and the *)
(* four operations that report the size of a window.                       *)
(***************************************************************************)
\* clock advances of the harness: half an error window, and what is left of
\* an hour after it
TickSteps == {150, 3450}
\* limits handed to check_api_error_limit and check_trades_per_hour_limit
ReportLimits == {1, 2}

InitRisk ==
  /\ InitCommon
  /\ pc = "risk_api"
  /\ EmptyHistory

Tick(d) ==
  /\ pc = "risk_api"
  /\ ticks < MaxTicks
  /\ ticks' = ticks + 1
  /\ now' = now + d
  /\ UNCHANGED <<pc, loop_counter, riskVars, risk_manager, paramVars,
                 loopVars, scanVars, execVars, tradeVars, shadow_trades,
                 alerts, obsVars, envVars, last_report, records, sizer_call,
                 scan_calls, reloader, reader>>

\* record_api_error(): _api_errors.append(time.time())
record_api_error ==
  /\ pc = "risk_api"
  /\ records < MaxRecords
  /\ records' = records + 1
  /\ api_errors' = Append(api_errors, now)
  /\ UNCHANGED <<now, pc, loop_counter, TRADING_ENABLED, trades_this_hour,
                 last_opportunity_time, last_alert_message,
                 symbol_disabled_until, price_history, risk_manager,
                 paramVars, loopVars, scanVars, execVars, tradeVars,
                 shadow_trades, alerts, obsVars, envVars, last_report, ticks,
                 sizer_call, scan_calls, reloader, reader>>

\* record_trade(): _trades_this_hour.append(time.time())
record_trade ==
  /\ pc = "risk_api"
  /\ records < MaxRecords
  /\ records' = records + 1
  /\ trades_this_hour' = Append(trades_this_hour, now)
  /\ UNCHANGED <<now, pc, loop_counter, TRADING_ENABLED, api_errors,
                 last_opportunity_time, last_alert_message,
                 symbol_disabled_until, price_history, risk_manager,
                 paramVars, loopVars, scanVars, execVars, tradeVars,
                 shadow_trades, alerts, obsVars, envVars, last_report, ticks,
                 sizer_call, scan_calls, reloader, reader>>

\* what a reporting operation answered: its result (ok for the two checks,
\* result for the size), the timestamps it counted, the window length that
\* applies to it, the clock, the number of record_* calls made so far, and
\* whether it repeats the report before it (same operation and argument,
\* same clock, no record_* call in between)
Report(op, arg, ok, result, counted, window) ==
  [op |-> op, arg |-> arg, ok |-> ok, result |-> result,
   counted |-> counted, window |-> window, at |-> now, records |-> records,
   repeats |-> (last_report.op = op /\ last_report.arg = arg
                /\ last_report.at = now /\ last_report.records = records),
   n |-> last_report.n + 1]

ReportFrame ==
  /\ pc = "risk_api"
  /\ last_report.n < MaxReports
  /\ UNCHANGED <<now, pc, loop_counter, TRADING_ENABLED,
                 last_opportunity_time, last_alert_message,
                 symbol_disabled_until, price_history, risk_manager,
                 paramVars, loopVars, scanVars, execVars, tradeVars,
                 shadow_trades, alerts, obsVars, envVars, ticks, records,
                 sizer_call, scan_calls, reloader, reader>>

\* check_api_error_limit(max_errors, window_seconds)
ReportApiErrorLimit(max_errors, window_seconds) ==
  /\ ReportFrame
  /\ api_errors' = ApiErrorsPruned(window_seconds)
  /\ last_report' = Report("check_api_error_limit", max_errors,
                           check_api_error_limit(max_errors, window_seconds),
                           Len(ApiErrorsPruned(window_seconds)),
                           ApiErrorsPruned(window_seconds), window_seconds)
  /\ UNCHANGED trades_this_hour

\* get_api_error_count()
ReportApiErrorCount ==
  /\ ReportFrame
  /\ last_report' = Report("get_api_error_count", 0, TRUE,
                           get_api_error_count, api_errors,
                           API_ERROR_WINDOW_SECONDS)
  /\ UNCHANGED <<api_errors, trades_this_hour>>

\* check_trades_per_hour_limit(max_trades)
ReportTradesPerHourLimit(max_trades) ==
  /\ ReportFrame
  /\ trades_this_hour' = TradesPruned
  /\ last_report' = Report("check_trades_per_hour_limit", max_trades,
                           check_trades_per_hour_limit(max_trades),
                           Len(TradesPruned), TradesPruned,
                           TRADE_WINDOW_SECONDS)
  /\ UNCHANGED api_errors

\* get_trades_this_hour()
ReportTradesThisHour ==
  /\ ReportFrame
  /\ trades_this_hour' = TradesPruned
  /\ last_report' = Report("get_trades_this_hour", 0, TRUE,
                           get_trades_this_hour, TradesPruned,
                           TRADE_WINDOW_SECONDS)
  /\ UNCHANGED api_errors

NextRisk ==
  \/ \E d \in TickSteps : Tick(d)
  \/ record_api_error
  \/ record_trade
  \/ \E max_errors \in ReportLimits :
       ReportApiErrorLimit(max_errors, API_ERROR_WINDOW_SECONDS)
  \/ ReportApiErrorCount
  \/ \E max_trades \in ReportLimits : ReportTradesPerHourLimit(max_trades)
  \/ ReportTradesThisHour

SpecRisk == InitRisk /\ [][NextRisk]_vars

(***************************************************************************)
(* SpecSizer: RiskManager.calculate_position_size applied to inputs drawn  *)
(* at start, under per-trade capital caps and balance usage fractions the  *)
(* parameter table may hold (its defaults and its validation bounds).      *)
(***************************************************************************)
SizerBalances == {0, 100, 1000, 5000}
SizerSpreads == {-10, 49, 50, 100, 101}
SizerPrices == {-1, 0, 1, 3, 100}

SizerTables ==
  {[DEFAULT_PARAMETERS EXCEPT !["MAX_CAPITAL_PER_TRADE_USD"].value = c,
                              !["MAX_BALANCE_USAGE_PER_EXCHANGE"].value = u] :
     c \in {DEFAULT_PARAMETERS["MAX_CAPITAL_PER_TRADE_USD"].min,
            DEFAULT_PARAMETERS["MAX_CAPITAL_PER_TRADE_USD"].value,
            DEFAULT_PARAMETERS["MAX_CAPITAL_PER_TRADE_USD"].max},
     u \in {DEFAULT_PARAMETERS["MAX_BALANCE_USAGE_PER_EXCHANGE"].min,
            DEFAULT_PARAMETERS["MAX_BALANCE_USAGE_PER_EXCHANGE"].value,
            DEFAULT_PARAMETERS["MAX_BALANCE_USAGE_PER_EXCHANGE"].max}}

InitSizer ==
  /\ InitWith(SizerTables)
  /\ pc = "sizer"
  /\ EmptyHistory
  /\ sizer_call \in {[called |-> FALSE, balance |-> b, spread |-> sp,
                      price |-> p, result |-> 0] :
                       b \in SizerBalances, sp \in SizerSpreads,
                       p \in SizerPrices}

\* risk_manager.calculate_position_size(balance, spread, price)
SizerCall ==
  /\ pc = "sizer"
  /\ ~ sizer_call.called
  /\ sizer_call' =
       [sizer_call EXCEPT
          !.called = TRUE,
          !.result = calculate_position_size(sizer_call.balance,
                                             sizer_call.spread,
                                             sizer_call.price)]
  /\ UNCHANGED <<now, pc, loop_counter, riskVars, risk_manager, paramVars,
                 loopVars, scanVars, execVars, tradeVars, shadow_trades,
                 alerts, obsVars, envVars, last_report, ticks, records,
                 scan_calls, reloader, reader>>

NextSizer == SizerCall

SpecSizer == InitSizer /\ [][NextSizer]_vars

(***************************************************************************)
(* SpecScan: find_arbitrage_opportunities called on its own, over quotes   *)
(* that put the net spread below, between and above the thresholds.        *)
(***************************************************************************)
ScanQuotes ==
  {[kraken |-> k, okx |-> o] :
     k \in {NoTicker, Quote(100, 100)},
     o \in {Quote(100, 100), Quote(101, 101), Quote(102, 102),
            Quote(101, 0)}}

InitScan ==
  /\ InitCommon
  /\ pc = "scan"
  /\ EmptyHistory

\* one iteration of the loop over trading_pairs
FindOpportunities(tk) ==
  /\ pc = "scan"
  /\ scan_idx <= Len(TRADING_PAIRS)
  /\ ScanBody(tk, "scan_done")
  /\ UNCHANGED <<now, loop_counter, TRADING_ENABLED, last_alert_message,
                 risk_manager, paramVars, balances, balance_refresh_counter,
                 no_data_alert_sent, exec_idx, executed_count, execVars,
                 tradeVars, shadow_trades, alerts, orders, created,
                 terminal_events, archived, cycle_start, ext_calls,
                 harnessVars>>

\* the function returned; it is called again after the refresh interval
FindAgain ==
  /\ pc = "scan_done"
  /\ scan_calls < MaxScanCalls
  /\ scan_calls' = scan_calls + 1
  /\ now' = now + REFRESH_INTERVAL_SECONDS
  /\ opportunities' = <<>>
  /\ tickers' = <<>>
  /\ evaluated' = <<>>
  /\ scan_idx' = 1
  /\ pc' = "scan"
  /\ UNCHANGED <<loop_counter, riskVars, risk_manager, paramVars, balances,
                 balance_refresh_counter, no_data_alert_sent, exec_idx,
                 executed_count, execVars, tradeVars,
                 shadow_trades, alerts, obsVars, envVars, last_report, ticks,
                 records, sizer_call, reloader, reader>>

NextScan ==
  \/ \E tk \in ScanQuotes : FindOpportunities(tk)
  \/ FindAgain

SpecScan == InitScan /\ [][NextScan]_vars

(***************************************************************************)
(* Properties.                                                             *)
(***************************************************************************)
\* the ids of the trades that made a terminal transition, of the trades in
\* trade_history, and of the trade whose orders are being submitted
TerminalIds == {terminal_events[k][1] : k \in DOMAIN terminal_events}
HistoryIds == {trade_history[k].id : k \in DOMAIN trade_history}
InFlightIds == IF pc \in {"buy", "sell"} THEN {trade_id} ELSE {}
NoDuplicates(s) == Cardinality(SeqToSet(s)) = Len(s)

\* what holds of the terminal transitions whether or not a trade is still
\* in trade_history: no trade makes two of them, every trade that is not in
\* flight made one, the trades of open_trades are pending, a trade is
\* archived when it makes its transition and only then, and the status an
\* archived trade shows is the one of its transition
OneTerminalTransition ==
  /\ NoDuplicates(created)
  /\ Cardinality(TerminalIds) = Len(terminal_events)
  /\ TerminalIds = SeqToSet(created) \ InFlightIds
  /\ \A k \in DOMAIN open_trades : open_trades[k].status = "pending"
  /\ archived = [k \in DOMAIN terminal_events |-> terminal_events[k][1]]
  /\ \A k \in DOMAIN trade_history :
       <<trade_history[k].id, trade_history[k].status>>
         \in SeqToSet(terminal_events)

\* C1 as stated: every created trade makes exactly one terminal transition,
\* its status never changes afterwards, and once terminal it appears in
\* trade_history exactly once.
C1_AppearsExactlyOnce ==
  /\ OneTerminalTransition
  /\ Cardinality(HistoryIds) = Len(trade_history)
  /\ HistoryIds = TerminalIds

\* C1, amended: every created trade makes exactly one terminal transition
\* (pending -> completed or pending -> failed) and the transition recorded
\* for it is never replaced, so its status never changes again; it is
\* appended to trade_history exactly once, appears there at most once, and
\* appears there exactly once for as long as it is among the last
\* MAX_TRADE_HISTORY trades archived.
C1_TerminalOnceArchivedOnce ==
  /\ [] /\ OneTerminalTransition
        /\ Cardinality(HistoryIds) = Len(trade_history)
        /\ HistoryIds \subseteq TerminalIds
        /\ SeqToSet(LastN(archived, MAX_TRADE_HISTORY)) \subseteq HistoryIds
  /\ [][/\ Len(terminal_events') >= Len(terminal_events)
        /\ SubSeq(terminal_events', 1, Len(terminal_events))
             = terminal_events]_vars

\* a trade of this run completed, another failed, and more trades made their
\* terminal transition than trade_history can hold
C1_Witness ==
  /\ Len(terminal_events) > MAX_TRADE_HISTORY
  /\ \E k \in DOMAIN terminal_events :
       /\ terminal_events[k][2] = "completed"
       /\ terminal_events[k][1] \in HistoryIds
  /\ \E k \in DOMAIN trade_history :
       /\ trade_history[k].status = "failed"
       /\ trade_history[k].timestamp >= 0
  /\ created[1] \notin HistoryIds
  /\ pc = "sleep"

\* the reason tag of a failed order leg
FailureTag(side, outcome) ==
  CASE side = "buy" /\ outcome = "exception" -> "buy_exception"
    [] side = "buy" /\ outcome = "error" -> "buy_failed"
    [] side = "sell" /\ outcome = "exception" -> "sell_exception"
    [] side = "sell" /\ outcome = "error" -> "sell_failed"
    [] OTHER -> ""

\* C2: an order leg that raises or returns an error payload ends its trade
\* as failed with the reason tag of the leg and of the kind of failure; when
\* it is the sell leg, partial_order holds the order record the buy leg
\* returned (and nothing when it is the buy leg); the trade is not persisted,
\* no further order is submitted for it, and the decision loop goes on with
\* the next opportunity, the kill-switch untouched.
C2_OrderLegFailure ==
  /\ [] \A k \in DOMAIN orders :
          orders[k].outcome # "ok" =>
            /\ \A m \in DOMAIN orders :
                 orders[m].trade = orders[k].trade => m <= k
            /\ Cardinality({m \in DOMAIN orders :
                              orders[m].trade = orders[k].trade})
                 = IF orders[k].order.side = "sell" THEN 2 ELSE 1
            /\ \A d \in DOMAIN db_trades :
                 db_trades[d].trade_id # orders[k].trade
            /\ \E i \in DOMAIN trade_history :
                 LET t == trade_history[i]
                 IN /\ t.id = orders[k].trade
                    /\ t.status = "failed"
                    /\ t.failure_reason =
                         FailureTag(orders[k].order.side, orders[k].outcome)
                    /\ t.failed_order.status = "error"
                    /\ t.failed_order.side = orders[k].order.side
                    /\ t.partial_order =
                         IF orders[k].order.side = "sell"
                         THEN [status |-> "ok", exchange |-> t.buy_exchange,
                               side |-> "buy", amount |-> t.position_size]
                         ELSE NoOrder
  /\ [][(Len(orders') > Len(orders)
           /\ orders'[Len(orders')].outcome # "ok")
        => /\ pc' = "exec"
           /\ exec_idx' = exec_idx + 1
           /\ opportunities' = opportunities
           /\ TRADING_ENABLED' = TRADING_ENABLED]_vars

\* a sell leg failed after its buy leg succeeded, and a later opportunity of
\* the same cycle had its orders submitted
C2_Witness ==
  \E k, m \in DOMAIN orders :
    /\ k < m
    /\ orders[k].order.side = "sell"
    /\ orders[k].outcome = "exception"
    /\ orders[m].trade # orders[k].trade
    /\ orders[m].cycle = orders[k].cycle
    /\ \E i \in DOMAIN trade_history :
         /\ trade_history[i].id = orders[k].trade
         /\ trade_history[i].failure_reason = "sell_exception"
         /\ trade_history[i].partial_order.status = "ok"

\* C3: whenever an order is submitted, the number of trades recorded in the
\* trailing 3600 s is strictly less than the max_trades_per_hour value the
\* Risk Guard holds for the cycle (the live value copied into it at the
\* cycle's parameter refresh).
C3_RateBelowLiveLimit ==
  [][Len(orders') > Len(orders)
     => Len(PruneWindow(trades_this_hour, now - TRADE_WINDOW_SECONDS))
          < risk_manager.max_trades_per_hour]_vars

\* what a cycle may not do once it is cut short: fetch a ticker, write a
\* shadow record, submit an order
NothingInCycle(cycle, started_at) ==
  /\ \A k \in DOMAIN ticker_fetches : ticker_fetches[k].cycle # cycle
  /\ \A k \in DOMAIN orders : orders[k].cycle # cycle
  /\ \A k \in DOMAIN shadow_trades : shadow_trades[k].timestamp < started_at

\* C4: when the daily PnL accumulator is <= -max_daily_loss_usd as a cycle
\* evaluates the loss limit, the check fails, the kill-switch is set to
\* false, the daily-loss alert is raised and the loop is left; the cycle has
\* fetched no ticker, written no shadow record and submitted no order, and
\* in the halted loop no step is possible any more.
C4_DailyLossHalts ==
  /\ [][(pc = "loss_check"
           /\ risk_manager.current_daily_pnl_usd
                <= - (risk_manager.max_daily_loss_usd * 10000))
        => /\ ~ check_daily_loss_limit(risk_manager.current_daily_pnl_usd)
           /\ TRADING_ENABLED' = FALSE
           /\ Len(alerts') = Len(alerts) + 1
           /\ alerts'[Len(alerts')].subject = "Circuit Breaker - Daily Loss"
           /\ pc' = "halted"]_vars
  /\ [] (pc = "halted" =>
           /\ ~ TRADING_ENABLED
           /\ NothingInCycle(loop_counter, cycle_start.at)
           /\ ~ ENABLED NextOpen)
  /\ [][pc = "halted" =>
          /\ pc' = "halted"
          /\ UNCHANGED <<ticker_fetches, shadow_trades, orders>>]_vars

\* the accumulator stood at -999 USD, a -2 USD result followed, and the next
\* loss-limit evaluation halted the loop
C4_Witness ==
  /\ pc = "halted"
  /\ risk_manager.current_daily_pnl_usd = -10010000
  /\ risk_manager.max_daily_loss_usd = 1000
  /\ alerts # <<>>
  /\ alerts[Len(alerts)].cycle = loop_counter

\* C5: for a buy price > 0 the size returned times the buy price is at most
\* max_capital_per_trade_usd and at most the available quote balance times
\* the balance usage fraction, whichever multiplier the net spread selects;
\* for a buy price <= 0 the size returned is 0.
C5_SizeWithinCaps ==
  sizer_call.called =>
    IF sizer_call.price <= 0 THEN sizer_call.result = 0
    ELSE /\ sizer_call.result * sizer_call.price
              <= risk_manager.max_capital_per_trade_usd * 10
         /\ sizer_call.result * sizer_call.price * 100
              <= sizer_call.balance
                   * risk_manager.max_balance_usage_per_exchange * 10

\* the x1.2 multiplier applied and the capital cap held the size down
C5_Witness ==
  /\ sizer_call.called
  /\ sizer_call.spread > 100
  /\ sizer_call.price > 0
  /\ sizer_call.result > 0
  /\ sizer_call.result * sizer_call.price
       = risk_manager.max_capital_per_trade_usd * 10
  /\ sizer_call.balance * risk_manager.max_balance_usage_per_exchange
       > risk_manager.max_capital_per_trade_usd * 100

\* the ordered pairs of distinct venues with a valid quote whose buy price
\* is positive, for the symbol scanned last
QuotedPairs ==
  {p \in (DOMAIN tickers) \X (DOMAIN tickers) :
     p[1] # p[2] /\ tickers[p[1]].ask > 0}

\* net spread = raw spread - fees, and emission iff net spread >= fees +
\* slippage + margin, for every pair of QuotedPairs
NetSpreadAndEmission ==
  (last_stn.ok /\ Len(tickers) >= 2) =>
    /\ Len(evaluated) = Cardinality(QuotedPairs)
    /\ \A p \in QuotedPairs :
         \E k \in DOMAIN evaluated :
           LET o == evaluated[k].opp
               buy_fee == EXCHANGE_FEES[tickers[p[1]].exchange]
               sell_fee == EXCHANGE_FEES[tickers[p[2]].exchange]
               raw == ((tickers[p[2]].bid - tickers[p[1]].ask) * 10000)
                        \div tickers[p[1]].ask
           IN /\ o.symbol = last_stn.symbol
              /\ o.buy_exchange_id = tickers[p[1]].exchange
              /\ o.sell_exchange_id = tickers[p[2]].exchange
              /\ o.raw_spread_percent = raw
              /\ o.net_spread_percent = raw - (buy_fee + sell_fee)
              /\ (o \in SeqToSet(opportunities))
                   <=> (o.net_spread_percent
                          >= buy_fee + sell_fee + MAX_SLIPPAGE_PERCENT
                               + SAFETY_MARGIN_SPREAD)

\* the pairs of the scenario: ask 100.00 at a fee of 0.26 %, bid 101.00 at a
\* fee of 0.10 %
ScenarioPairs ==
  {k \in DOMAIN evaluated :
     /\ evaluated[k].opp.buy_price = 100
     /\ evaluated[k].opp.sell_price = 101
     /\ evaluated[k].opp.buy_fee_percent = 26
     /\ evaluated[k].opp.sell_fee_percent = 10}

\* C6 as stated: net spread = raw spread - fees, emission iff net spread >=
\* fees + slippage + margin, and in the scenario the pair is rejected
\* because its net spread of 0.64 % is below an effective minimum of 1.26 %.
C6_ScenarioMinimum126 ==
  /\ NetSpreadAndEmission
  /\ \A k \in ScenarioPairs :
       /\ evaluated[k].opp.net_spread_percent = 64
       /\ evaluated[k].opp.effective_min_spread = 126
       /\ ~ evaluated[k].emitted

\* C6, amended: net spread = raw spread - fees, emission iff net spread >=
\* fees + slippage + margin, and in the scenario the pair is rejected
\* because its net spread of 0.64 % is below an effective minimum of 0.66 %
\* (0.26 + 0.10 + 0.15 + 0.15).
C6_ScenarioMinimum66 ==
  /\ NetSpreadAndEmission
  /\ \A k \in ScenarioPairs :
       /\ evaluated[k].opp.net_spread_percent = 64
       /\ evaluated[k].opp.effective_min_spread = 66
       /\ ~ evaluated[k].emitted
       /\ evaluated[k].opp \notin SeqToSet(opportunities)

\* the scenario's pair was evaluated for one symbol after a pair of the
\* other symbol had been emitted
C6_Witness ==
  /\ ScenarioPairs # {}
  /\ last_stn.ok
  /\ opportunities # <<>>
  /\ \E k \in DOMAIN evaluated : ~ evaluated[k].emitted
  /\ pc = "scan_done"

\* C7: trade_history never holds more than MAX_TRADE_HISTORY trades, and it
\* holds, in the order in which they were archived, exactly the trades
\* archived last: what an archival into a full history evicts is the trade
\* archived earliest.
C7_HistoryBoundedFifo ==
  /\ Len(trade_history) <= MAX_TRADE_HISTORY
  /\ [k \in DOMAIN trade_history |-> trade_history[k].id]
       = LastN(archived, MAX_TRADE_HISTORY)

\* two trades of this run were archived, the second of them into a full
\* history, which evicted the trade archived earliest
C7_Witness ==
  /\ Len(archived) = MAX_TRADE_HISTORY + 1
  /\ Len(trade_history) = MAX_TRADE_HISTORY
  /\ trade_history[1].id = archived[2]
  /\ trade_history[MAX_TRADE_HISTORY].id = archived[Len(archived)]
  /\ trade_history[MAX_TRADE_HISTORY].timestamp >= 0
  /\ trade_history[MAX_TRADE_HISTORY - 1].timestamp >= 0

\* C8: no operation that reports the size of a sliding window counts an
\* event that is older, at the moment of the report, than the window length
\* (API_ERROR_WINDOW_SECONDS for the error window, 3600 s for the trade-rate
\* window).
C8_NoStaleEventCounted ==
  /\ last_report.result = Len(last_report.counted)
  /\ \A k \in DOMAIN last_report.counted :
       last_report.at - last_report.counted[k] <= last_report.window

\* the operations that prune the window they measure
PruningReports ==
  {"check_api_error_limit", "check_trades_per_hour_limit",
   "get_trades_this_hour"}

\* C9: a pruning report that repeats the report made just before it (same
\* operation, same argument, same clock value, no record_* call in between)
\* leaves both windows as the first report left them and returns the same
\* result.
C9_PruningIdempotent ==
  [][(/\ last_report'.n = last_report.n + 1
      /\ last_report'.op \in PruningReports
      /\ last_report'.op = last_report.op
      /\ last_report'.arg = last_report.arg
      /\ last_report'.at = last_report.at
      /\ last_report'.records = last_report.records)
     => /\ api_errors' = api_errors
        /\ trades_this_hour' = trades_this_hour
        /\ last_report'.ok = last_report.ok
        /\ last_report'.result = last_report.result
        /\ last_report'.counted = last_report.counted]_vars

\* check_api_error_limit was evaluated twice in a row at one clock value,
\* after every recorded error had gone stale and the first evaluation had
\* pruned them all
C9_Witness ==
  /\ last_report.repeats
  /\ last_report.op = "check_api_error_limit"
  /\ records = MaxRecords
  /\ api_errors = <<>>
  /\ trades_this_hour = <<>>
  /\ last_report.ok

\* C10: should_trade_now called while the kill-switch is false returns false
\* and leaves the cooldown map, the error window and the trade-rate window
\* as they are; a cycle that starts with the kill-switch false fetches no
\* ticker, emits no opportunity, writes no shadow record and submits no
\* order.
C10_KillSwitchShortCircuits ==
  /\ [][(last_stn'.n # last_stn.n /\ ~ TRADING_ENABLED)
        => /\ ~ last_stn'.ok
           /\ UNCHANGED <<symbol_disabled_until, api_errors,
                          trades_this_hour>>]_vars
  /\ [] (~ cycle_start.enabled =>
           /\ NothingInCycle(loop_counter, cycle_start.at)
           /\ \A k \in DOMAIN opportunities :
                opportunities[k].timestamp < cycle_start.at
           /\ pc \in {"api_check", "breaker_sleep", "enabled_check", "sleep",
                      "loop_top"})

\* a cycle started with the kill-switch false and went to sleep, and
\* should_trade_now was then called and answered false while the trade-rate
\* window held a trade older than an hour, which it left there
C10_Witness ==
  /\ ~ cycle_start.enabled
  /\ cycle_start.at = now
  /\ pc = "sleep"
  /\ ~ TRADING_ENABLED
  /\ ~ last_stn.enabled
  /\ last_stn.at = now
  /\ ~ last_stn.ok
  /\ trades_this_hour # <<>>
  /\ TradesPruned = <<>>

(***************************************************************************)
(* SpecBreaker: the decision loop inside an environment that calls         *)
(* record_api_error between two cycles.  The only call of record_api_error *)
(* in main() sits in an except branch that get_balances never reaches, so  *)
(* the window is filled through the entry point of risk.py itself.         *)
(***************************************************************************)
\* record_api_error() called before a cycle starts
RecordApiErrorBetweenCycles ==
  /\ pc = "loop_top"
  /\ loop_counter < MaxCycles
  /\ records < MaxApiErrorCalls
  /\ records' = records + 1
  /\ api_errors' = Append(api_errors, now)
  /\ UNCHANGED <<now, pc, loop_counter, TRADING_ENABLED, trades_this_hour,
                 last_opportunity_time, last_alert_message,
                 symbol_disabled_until, price_history, risk_manager,
                 paramVars, loopVars, scanVars, execVars, tradeVars,
                 shadow_trades, alerts, obsVars, envVars, last_report, ticks,
                 sizer_call, scan_calls, reloader, reader>>

\* the venues of this environment: balances are funded, a symbol is quoted
\* flat or with an exploitable spread, an order is filled or refused
BreakerBalances == [e \in Exchanges |-> FullBalance]
BreakerMarkets == {FlatMarket, ArbMarket}
BreakerOutcomes == {"ok", "error"}

InitBreaker ==
  /\ InitWith({DEFAULT_PARAMETERS})
  /\ sizer_call = NoSizerCall
  /\ pc = "loop_top"
  /\ EmptyHistory

NextBreaker ==
  \/ LoopTop
  \/ RecordApiErrorBetweenCycles
  \/ ApiErrorCheck
  \/ TradingEnabledCheck
  \/ RefreshBalances(BreakerBalances)
  \/ DailyLossCheck
  \/ \E tk \in BreakerMarkets : ScanSymbol(tk)
  \/ StallCheck
  \/ ShadowRecord
  \/ ExecuteBegin
  \/ \E outcome \in BreakerOutcomes : SubmitBuy(outcome)
  \/ \E outcome \in BreakerOutcomes : SubmitSell(outcome)
  \/ \E delay \in SleepDelays(REFRESH_INTERVAL_SECONDS)
                    \cup SleepDelays(BREAKER_SLEEP_SECONDS) : Sleep(delay)

SpecBreaker == InitBreaker /\ [][NextBreaker]_vars

\* the errors whose timestamp lies inside the trailing error window
ErrorsInWindow ==
  SelectSeq(api_errors, LAMBDA t : t > now - API_ERROR_WINDOW_SECONDS)

\* C11: when a cycle's API-error check finds at least
\* MAX_API_ERRORS_PER_WINDOW errors inside the trailing error window, the
\* kill-switch is set to false, the circuit-breaker alert is raised and the
\* cycle goes to its 60 s sleep; the cycle has fetched no ticker, written no
\* shadow record and submitted no order, and does none of these before the
\* next cycle starts.
C11_ApiErrorTrip ==
  /\ [][(pc = "api_check" /\ Len(ErrorsInWindow) >= MAX_API_ERRORS_PER_WINDOW)
        => /\ TRADING_ENABLED' = FALSE
           /\ Len(alerts') = Len(alerts) + 1
           /\ alerts'[Len(alerts')].subject = "Circuit Breaker Triggered"
           /\ alerts'[Len(alerts')].cycle = loop_counter
           /\ pc' = "breaker_sleep"]_vars
  /\ [] (pc = "breaker_sleep" =>
           /\ ~ TRADING_ENABLED
           /\ NothingInCycle(loop_counter, cycle_start.at))
  /\ [][pc = "breaker_sleep" =>
          /\ pc' = "loop_top"
          /\ UNCHANGED <<ticker_fetches, shadow_trades, orders>>]_vars

\* exactly MAX_API_ERRORS_PER_WINDOW errors stood in the window as the cycle
\* checked it, and the breaker tripped
C11_Witness ==
  /\ pc = "breaker_sleep"
  /\ Len(ErrorsInWindow) = MAX_API_ERRORS_PER_WINDOW
  /\ ~ TRADING_ENABLED
  /\ alerts # <<>>
  /\ alerts[Len(alerts)].subject = "Circuit Breaker Triggered"
  /\ alerts[Len(alerts)].cycle = loop_counter

\* no step of the loop turns the kill-switch back on
KillSwitchStaysOff == [][~ TRADING_ENABLED => ~ TRADING_ENABLED']_vars

\* C12: an API-error trip is a pause that ends with the errors: a cycle that
\* starts after a trip and whose own API-error check finds fewer than
\* MAX_API_ERRORS_PER_WINDOW errors in the trailing window is not held back
\* by the earlier trip; it goes on to the balance refresh and the scan.
C12_PauseEndsWithWindow ==
  [][(pc = "enabled_check"
        /\ last_alert_message
             = TradingMessage(FALSE, "API error limit exceeded")
        /\ Len(ErrorsInWindow) < MAX_API_ERRORS_PER_WINDOW)
     => pc' = "balances"]_vars

\* C13: a scan of a symbol in which a venue's ticker fetch fails (get_ticker
\* yields no usable quote, so fewer tickers are collected than there are
\* venues) leaves one more timestamp in the API-error window for every
\* failed fetch.
C13_FailedFetchCounted ==
  [][(pc = "scan" /\ last_stn'.n = last_stn.n + 1 /\ last_stn'.ok)
     => Len(api_errors')
          = Len(ApiErrorsPruned(API_ERROR_WINDOW_SECONDS))
              + (Len(SUPPORTED_EXCHANGES) - Len(tickers'))]_vars

(***************************************************************************)
(* SpecCap: the decision loop of a deployment whose config.MAX_OPEN_TRADES *)
(* is one of OpenTradeCaps.  Every trade leaves the pending set before the *)
(* next opportunity is looked at, so only a cap of 0 is ever reached.      *)
(***************************************************************************)
\* values of config.MAX_OPEN_TRADES
OpenTradeCaps == {0, 1, MAX_OPEN_TRADES}

\* lines 90-101 of main(): the RiskManager is constructed
ConstructRiskManager(cap) ==
  /\ pc = "construct"
  /\ risk_manager' = [NewRiskManager(store) EXCEPT !.max_open_trades = cap]
  /\ pc' = "loop_top"
  /\ UNCHANGED <<now, loop_counter, riskVars, paramVars, loopVars, scanVars,
                 execVars, tradeVars, shadow_trades, alerts, obsVars,
                 envVars, harnessVars>>

InitCap ==
  /\ InitWith({DEFAULT_PARAMETERS})
  /\ sizer_call = NoSizerCall
  /\ pc = "construct"
  /\ EmptyHistory

NextCap ==
  \/ \E cap \in OpenTradeCaps : ConstructRiskManager(cap)
  \/ LoopNext

SpecCap == InitCap /\ [][NextCap]_vars

\* the trades of open_trades that are pending, all of them and those other
\* than the trade whose orders are being submitted
PendingTrades == SelectSeq(open_trades, LAMBDA t : t.status = "pending")
OtherPendingTrades == SelectSeq(PendingTrades, LAMBDA t : t.id # trade_id)

\* C14: when the loop over the opportunities looks at an opportunity while
\* the number of pending trades is >= max_open_trades, it creates no trade,
\* submits no order and leaves the loop, and no order follows before the
\* next cycle; a trade is created only while fewer than max_open_trades
\* trades are pending, and whenever an order is submitted, fewer than
\* max_open_trades trades other than the one being executed are pending.
C14_OpenTradeCap ==
  /\ [][(pc = "exec" /\ exec_idx <= Len(opportunities)
           /\ Len(PendingTrades) >= risk_manager.max_open_trades)
        => /\ pc' = "sleep"
           /\ UNCHANGED <<open_trades, created, orders>>]_vars
  /\ [][created' # created
          => Len(PendingTrades) < risk_manager.max_open_trades]_vars
  /\ [][orders' # orders
          => Len(OtherPendingTrades) < risk_manager.max_open_trades]_vars
  /\ [][pc = "sleep" => UNCHANGED <<open_trades, created, orders>>]_vars

\* with a cap of 0 two opportunities were found and shadowed, the loop over
\* them was left at the first one, and no trade exists
C14_Witness ==
  /\ pc = "sleep"
  /\ risk_manager.max_open_trades = 0
  /\ Len(opportunities) = 2
  /\ shadow_trades # <<>>
  /\ created = <<>>
  /\ orders = <<>>

(***************************************************************************)
(* SpecExposure: the decision loop over a parameter table that holds       *)
(* MAX_SYMBOL_EXPOSURE_USD at the lower end of its range or at its default.*)
(***************************************************************************)
\* values of MAX_SYMBOL_EXPOSURE_USD the parameter table may hold at start
StoredSymbolExposure == {10, 2000}

ExposureTables ==
  {[DEFAULT_PARAMETERS EXCEPT !["MAX_SYMBOL_EXPOSURE_USD"].value = v] :
     v \in StoredSymbolExposure}

InitExposure ==
  /\ InitWith(ExposureTables)
  /\ sizer_call = NoSizerCall
  /\ pc = "loop_top"
  /\ EmptyHistory

SpecExposure == InitExposure /\ [][Next]_vars

\* db.get_symbol_exposure: SUM(amount * buy_price) over the stored trades of
\* the symbol (amounts in tenths, so the sum is in tenths of a USD); all
\* trades of a run fall on one day
RECURSIVE SumExposure(_, _)
SumExposure(trades, symbol) ==
  IF trades = <<>> THEN 0
  ELSE (IF Head(trades).symbol = symbol
        THEN Head(trades).amount * Head(trades).buy_price ELSE 0)
       + SumExposure(Tail(trades), symbol)

get_symbol_exposure(symbol) == SumExposure(db_trades, symbol)

\* C15: a trade is created, and an order is submitted, only for a symbol
\* whose exposure in durable storage (the sum of amount x buy_price over
\* the symbol's stored trades) is below max_symbol_exposure_usd.
C15_ExposureCapAtExecution ==
  /\ [][created' # created
          => get_symbol_exposure(opportunities[exec_idx].symbol)
               < risk_manager.max_symbol_exposure_usd * 10]_vars
  /\ [][orders' # orders
          => get_symbol_exposure(opportunities[exec_idx].symbol)
               < risk_manager.max_symbol_exposure_usd * 10]_vars

(***************************************************************************)
(* SpecExecute: the loop of main() over the opportunities of one cycle,    *)
(* entered with two opportunities and a balance snapshot drawn from input  *)
(* sets, so that every early return of execute_arbitrage_opportunity is    *)
(* taken.                                                                  *)
(***************************************************************************)
NoBaseBalance == [USDT |-> 1000, BTC |-> 0, ETH |-> 0]
ExecBalances ==
  {[kraken |-> FullBalance, okx |-> FullBalance],
   [kraken |-> LowBaseBalance, okx |-> LowBaseBalance],
   [kraken |-> EmptyBalance, okx |-> FullBalance],
   [kraken |-> FullBalance, okx |-> NoBaseBalance]}

\* net spreads (0.44 %, 0.45 %, 1.50 %) and buy prices of an opportunity
ExecSpreads == {44, 45, 150}
ExecPrices == {0, 100}

\* an opportunity of buying on kraken and selling on okx
ExecOpportunity(symbol, buy_price, net_spread_percent) ==
  [symbol |-> symbol,
   buy_exchange_id |-> "kraken",
   sell_exchange_id |-> "okx",
   buy_price |-> buy_price,
   sell_price |-> buy_price + 2,
   raw_spread_percent |->
     net_spread_percent + get_exchange_fee("kraken") + get_exchange_fee("okx"),
   net_spread_percent |-> net_spread_percent,
   buy_fee_percent |-> get_exchange_fee("kraken"),
   sell_fee_percent |-> get_exchange_fee("okx"),
   effective_min_spread |->
     calculate_effective_min_spread("kraken", "okx", MAX_SLIPPAGE_PERCENT),
   timestamp |-> now]

ExecOpportunities(symbol) ==
  {ExecOpportunity(symbol, p, n) : p \in ExecPrices, n \in ExecSpreads}

InitExecute ==
  /\ InitWith({DEFAULT_PARAMETERS})
  /\ sizer_call = NoSizerCall
  /\ pc = "exec_input"
  /\ EmptyHistory

\* the opportunities and the balance snapshot the loop is entered with
EnterExecution(opps, snapshot) ==
  /\ pc = "exec_input"
  /\ opportunities' = opps
  /\ balances' = snapshot
  /\ exec_idx' = 1
  /\ executed_count' = 0
  /\ pc' = "exec"
  /\ UNCHANGED <<now, loop_counter, riskVars, risk_manager, paramVars,
                 balance_refresh_counter, no_data_alert_sent, scan_idx,
                 scanVars, execVars, tradeVars, shadow_trades, alerts,
                 obsVars, envVars, harnessVars>>

NextExecute ==
  \/ \E first \in ExecOpportunities("BTC/USDT"),
        second \in ExecOpportunities("ETH/USDT"),
        snapshot \in ExecBalances :
       EnterExecution(<<first, second>>, snapshot)
  \/ ExecuteBegin
  \/ \E outcome \in OrderOutcomes : SubmitBuy(outcome)
  \/ \E outcome \in OrderOutcomes : SubmitSell(outcome)

SpecExecute == InitExecute /\ [][NextExecute]_vars

\* the opportunity the loop is looking at, and the balances it may draw on
CurrentOpp == opportunities[exec_idx]
QuoteAvailable(opp) ==
  balances[opp.buy_exchange_id][extract_base_quote(opp.symbol)[2]]
BaseAvailable(opp) ==
  balances[opp.sell_exchange_id][extract_base_quote(opp.symbol)[1]]
SizerResult(opp) ==
  calculate_position_size(QuoteAvailable(opp), opp.net_spread_percent,
                          opp.buy_price)

\* an opportunity execute_arbitrage_opportunity turns down before it creates
\* a trade
TurnedDown(opp) ==
  \/ QuoteAvailable(opp) <= 0
  \/ SizerResult(opp) <= 0
  \/ Min2(SizerResult(opp), BaseAvailable(opp)) <= 0
  \/ opp.net_spread_percent - MAX_SLIPPAGE_PERCENT < MIN_SPREAD_PERCENT

\* C16: a trade enters pending only with a position size > 0 that is at
\* most the Position Sizer's result and at most the free base balance on
\* the sell venue, and only for an opportunity whose net spread less the
\* maximum slippage is >= the minimum spread; an opportunity with a quote
\* balance <= 0, a sized or balance-reduced position <= 0, or a failing
\* degraded spread check creates no trade, submits no order and leaves the
\* pending set and the history as they were.
C16_PendingEntry ==
  /\ [][created' # created
        => LET t == open_trades'[Len(open_trades')]
           IN /\ Len(open_trades') = Len(open_trades) + 1
              /\ t.status = "pending"
              /\ t.id = created'[Len(created')]
              /\ t.position_size > 0
              /\ t.position_size <= SizerResult(CurrentOpp)
              /\ t.position_size <= BaseAvailable(CurrentOpp)
              /\ CurrentOpp.net_spread_percent - MAX_SLIPPAGE_PERCENT
                   >= MIN_SPREAD_PERCENT]_vars
  /\ [][(pc = "exec" /\ exec_idx <= Len(opportunities)
           /\ TurnedDown(CurrentOpp))
        => UNCHANGED <<open_trades, trade_history, created, orders>>]_vars

\* the first opportunity failed the degraded spread check with a positive
\* size (0.44 % - 0.15 % < 0.30 %) and left no trace; the second one entered
\* pending with its size cut down to the 2.0 units of base balance
C16_Witness ==
  /\ pc = "buy"
  /\ exec_idx = 2
  /\ opportunities[1].net_spread_percent = 44
  /\ SizerResult(opportunities[1]) > 0
  /\ BaseAvailable(opportunities[1]) > 0
  /\ Len(created) = 1
  /\ orders = <<>>
  /\ trade_history = <<>>
  /\ Len(open_trades) = 1
  /\ open_trades[1].position_size = BaseAvailable(CurrentOpp)
  /\ open_trades[1].position_size < SizerResult(CurrentOpp)

\* the ids of the trades that hold a record in durable storage, and of the
\* trades that reached completed
StoredIds == {db_trades[k].trade_id : k \in DOMAIN db_trades}
CompletedIds ==
  {terminal_events[k][1] :
     k \in {i \in DOMAIN terminal_events : terminal_events[i][2] = "completed"}}

\* C17: durable storage holds a record for exactly the trades that reached
\* completed, one record each; a trade that ended failed has none.
C17_StoredIffCompleted ==
  /\ StoredIds = CompletedIds
  /\ Cardinality(StoredIds) = Len(db_trades)

\* the estimated net profit of a trade, in 1/10000 USD:
\* (size x sell_price - size x buy_price)
\*   - (cost + revenue) x default_fee_percent / 100
EstimatedNetProfit(t) ==
  LET cost == t.position_size * t.buy_price
      revenue == t.position_size * t.sell_price
  IN ((t.position_size * t.sell_price - t.position_size * t.buy_price) * 1000)
       - (((cost + revenue) * DEFAULT_FEE_PERCENT) \div 10)

RECURSIVE SumNetProfit(_)
SumNetProfit(trades) ==
  IF trades = <<>> THEN 0
  ELSE EstimatedNetProfit(Head(trades)) + SumNetProfit(Tail(trades))

CompletedTrades ==
  SelectSeq(trade_history, LAMBDA t : t.status = "completed")

\* C18: the daily PnL accumulator always equals the sum of the estimated net
\* profits of the trades that reached completed since the loop started, and
\* it changes only in a step that completes a trade, by that trade's
\* estimated net profit: no step of the loop resets it.
C18_DailyPnlIsSumOfCompleted ==
  /\ [] (risk_manager.current_daily_pnl_usd = SumNetProfit(CompletedTrades))
  /\ [][risk_manager'.current_daily_pnl_usd
          # risk_manager.current_daily_pnl_usd
        => /\ Len(terminal_events') = Len(terminal_events) + 1
           /\ terminal_events'[Len(terminal_events')][2] = "completed"
           /\ risk_manager'.current_daily_pnl_usd
                = risk_manager.current_daily_pnl_usd
                    + EstimatedNetProfit(trade_history'[Len(trade_history')])
          ]_vars

\* two trades were completed in two cycles more than an hour apart, and the
\* accumulator holds the profit of both
C18_Witness ==
  /\ Len(CompletedTrades) = 2
  /\ loop_counter = 2
  /\ CompletedTrades[2].timestamp - CompletedTrades[1].timestamp
       > TRADE_WINDOW_SECONDS
  /\ risk_manager.current_daily_pnl_usd
       = EstimatedNetProfit(CompletedTrades[1])
           + EstimatedNetProfit(CompletedTrades[2])
  /\ risk_manager.current_daily_pnl_usd > 0

(***************************************************************************)
(* SpecParams: the ParameterStore of the dashboard process (api.py), whose  *)
(* request handlers run in threads: one thread updates the table and       *)
(* reloads the cache, another reads the cache, and the clock advances.     *)
(* A step is one access to self._params or to the table.                   *)
(***************************************************************************)
\* the (name, value) pairs sent to POST /api/params; 600 is out of range
ParamUpdates ==
  {<<"MIN_SPREAD_PERCENT", 5>>, <<"MIN_SPREAD_PERCENT", 600>>,
   <<"MAX_TRADES_PER_HOUR", 1>>}

\* what the SELECT of get_all_parameters does: returns the rows, returns no
\* row, or raises (get_all_parameters then returns [] as well)
FetchOutcomes == {"rows", "empty", "error"}

InitParams ==
  /\ InitWith({DEFAULT_PARAMETERS})
  /\ sizer_call = NoSizerCall
  /\ pc = "params"
  /\ EmptyHistory

\* db.update_parameter(name, new_value) called on the table
UpdateParameter(name, new_value) ==
  /\ pc = "params"
  /\ ext_calls < MaxParamUpdates
  /\ ext_calls' = ext_calls + 1
  /\ db_parameters' = update_parameter(name, new_value).table
  /\ UNCHANGED <<now, pc, loop_counter, riskVars, risk_manager, store,
                 loopVars, scanVars, execVars, tradeVars, shadow_trades,
                 alerts, obsVars, arb_seen, harnessVars>>

\* the requests sent to POST /api/params/update: <<name, whether float()
\* accepts the value, the number it gives>>
ApiRequests ==
  {<<u[1], TRUE, u[2]>> : u \in ParamUpdates}
    \cup {<<"MIN_SPREAD_PERCENT", FALSE, 0>>, <<"NOT_A_PARAMETER", TRUE, 5>>}

\* api_update_param, lines 182-203: the request is validated and
\* update_parameter is called; the reload_params that follows a success
\* (lines 205-207) is ReloadFetch and ReloadSwap
ApiUpdateParam(name, is_number, new_value) ==
  /\ pc = "params"
  /\ ext_calls < MaxParamUpdates
  /\ ext_calls' = ext_calls + 1
  /\ LET response == api_update_param(name, is_number, new_value)
     IN /\ db_parameters' = response.table
        /\ last_report' =
             [NoReport EXCEPT !.op = "api_update_param",
                              !.arg = <<name, is_number, new_value>>,
                              !.ok = response.ok,
                              !.result = response.message,
                              !.window = response.status,
                              !.at = now,
                              !.n = ext_calls + 1]
  /\ UNCHANGED <<now, pc, loop_counter, riskVars, risk_manager, store,
                 loopVars, scanVars, execVars, tradeVars, shadow_trades,
                 alerts, obsVars, arb_seen, ticks, records, sizer_call,
                 scan_calls, reloader, reader>>

\* time passes
AdvanceClock(d) ==
  /\ pc = "params"
  /\ ticks < MaxTicks
  /\ ticks' = ticks + 1
  /\ now' = now + d
  /\ UNCHANGED <<pc, loop_counter, riskVars, risk_manager, paramVars,
                 loopVars, scanVars, execVars, tradeVars, shadow_trades,
                 alerts, obsVars, envVars, last_report, records, sizer_call,
                 scan_calls, reloader, reader>>

\* reload_params, line 40: params = get_all_parameters(self.db_path)
ReloadFetch(outcome) ==
  /\ pc = "params"
  /\ reloader.phase = "idle"
  /\ reloader.calls < MaxReloads
  /\ reloader' = [reloader EXCEPT
                    !.phase = "fetched",
                    !.outcome = outcome,
                    !.rows = IF outcome = "rows" THEN get_all_parameters
                             ELSE EmptyMap,
                    !.before = store]
  /\ UNCHANGED <<now, pc, loop_counter, riskVars, risk_manager, paramVars,
                 loopVars, scanVars, execVars, tradeVars, shadow_trades,
                 alerts, obsVars, envVars, last_report, ticks, records,
                 sizer_call, scan_calls, reader>>

\* reload_params, lines 41-46: the new mapping is built and assigned to
\* self._params, the timestamp is set, the result is returned; the call is
\* over once the cache holds the fetched rows
ReloadSwap ==
  /\ pc = "params"
  /\ reloader.phase = "fetched"
  /\ store' = reload_params(reloader.rows)
  /\ reloader' =
       IF DOMAIN reloader.rows = {} \/ store'.params = reloader.rows
       THEN [reloader EXCEPT
               !.phase = "idle",
               !.result = reload_result(reloader.rows),
               !.calls = @ + 1,
               !.installed = IF DOMAIN reloader.rows = {} THEN @
                             ELSE @ \cup {reloader.rows}]
       ELSE reloader
  /\ UNCHANGED <<now, pc, loop_counter, riskVars, risk_manager,
                 db_parameters, loopVars, scanVars, execVars, tradeVars,
                 shadow_trades, alerts, obsVars, envVars, last_report, ticks,
                 records, sizer_call, scan_calls, reader>>

\* get_all(): self._params.copy()
ReadAll ==
  /\ pc = "params"
  /\ reader.phase = "idle"
  /\ reader.reads < MaxReads
  /\ reader' = [reader EXCEPT !.op = "get_all", !.seen = store.params,
                              !.reads = @ + 1]
  /\ UNCHANGED <<now, pc, loop_counter, riskVars, risk_manager, paramVars,
                 loopVars, scanVars, execVars, tradeVars, shadow_trades,
                 alerts, obsVars, envVars, last_report, ticks, records,
                 sizer_call, scan_calls, reloader>>

\* get_param(name, default), line 61: if name in self._params
ReadCheck(name) ==
  /\ pc = "params"
  /\ reader.phase = "idle"
  /\ reader.reads < MaxReads
  /\ reader' = [reader EXCEPT !.phase = "checked", !.op = "get_param",
                              !.name = name,
                              !.found = (name \in DOMAIN store.params),
                              !.checked_in = store.params]
  /\ UNCHANGED <<now, pc, loop_counter, riskVars, risk_manager, paramVars,
                 loopVars, scanVars, execVars, tradeVars, shadow_trades,
                 alerts, obsVars, envVars, last_report, ticks, records,
                 sizer_call, scan_calls, reloader>>

\* get_param(name, default), lines 62-65: return self._params[name], or the
\* default
ReadValue ==
  /\ pc = "params"
  /\ reader.phase = "checked"
  /\ reader' = [reader EXCEPT
                  !.phase = "idle",
                  !.value = IF reader.found
                            THEN store.params[reader.name]
                            ELSE DEFAULT_PARAMETERS[reader.name].value,
                  !.seen = store.params,
                  !.reads = @ + 1]
  /\ UNCHANGED <<now, pc, loop_counter, riskVars, risk_manager, paramVars,
                 loopVars, scanVars, execVars, tradeVars, shadow_trades,
                 alerts, obsVars, envVars, last_report, ticks, records,
                 sizer_call, scan_calls, reloader>>

NextParams ==
  \/ \E r \in ApiRequests : ApiUpdateParam(r[1], r[2], r[3])
  \/ \E d \in {RELOAD_INTERVAL} : AdvanceClock(d)
  \/ \E outcome \in FetchOutcomes : ReloadFetch(outcome)
  \/ ReloadSwap
  \/ ReadAll
  \/ \E name \in {u[1] : u \in ParamUpdates} : ReadCheck(name)
  \/ ReadValue

SpecParams == InitParams /\ [][NextParams]_vars

\* C19: a reload_params call whose fetch returns rows replaces the cached
\* mapping by exactly the fetched rows, sets the last-reload timestamp to
\* the current time and returns true; a call whose fetch fails or returns
\* no row returns false and leaves the cached mapping and the last-reload
\* timestamp as they were when the call began.
C19_ReloadReplacesOrKeeps ==
  [][reloader'.calls = reloader.calls + 1
     => IF reloader.outcome = "rows"
        THEN /\ reloader'.result = TRUE
             /\ DOMAIN reloader.rows # {}
             /\ store'.params = reloader.rows
             /\ store'.last_reload = now
        ELSE /\ reloader'.result = FALSE
             /\ store' = store
             /\ store'.params = reloader.before.params
             /\ store'.last_reload = reloader.before.last_reload]_vars

\* a first reload installed an edited table at t = 30 s; the table was
\* edited again and a second reload, at t = 60 s, failed: the cache still
\* holds the first snapshot and its timestamp
C19_Witness ==
  /\ reloader.phase = "idle"
  /\ reloader.calls = 2
  /\ reloader.outcome = "error"
  /\ reloader.result = FALSE
  /\ store.last_reload = RELOAD_INTERVAL
  /\ now = 2 * RELOAD_INTERVAL
  /\ store.params["MIN_SPREAD_PERCENT"] = 5
  /\ store.params # get_all_parameters

ReloadWaits == {10, 20, RELOAD_INTERVAL}

\* one maybe_reload() call, lines 51-54, with the reload_params call it
\* makes when the interval has elapsed
MaybeReload(outcome) ==
  /\ pc = "params"
  /\ reloader.phase = "idle"
  /\ reloader.calls < MaxReloads
  /\ LET fetched == IF outcome = "rows" THEN get_all_parameters
                    ELSE EmptyMap
         \* reload_params is entered exactly when rows that differ from
         \* every cached mapping would be installed
         entered == maybe_reload("fetched" :> 0) # store
     IN /\ store' = maybe_reload(fetched)
        /\ reloader' =
             [reloader EXCEPT
                !.attempted = entered,
                !.outcome = outcome,
                !.rows = fetched,
                !.before = store,
                !.result = reload_result(fetched),
                !.calls = @ + 1]
  /\ UNCHANGED <<now, pc, loop_counter, riskVars, risk_manager,
                 db_parameters, loopVars, scanVars, execVars, tradeVars,
                 shadow_trades, alerts, obsVars, envVars, last_report, ticks,
                 records, sizer_call, scan_calls, reader>>

NextReload ==
  \/ \E d \in ReloadWaits : AdvanceClock(d)
  \/ \E outcome \in FetchOutcomes : MaybeReload(outcome)
  \/ \E u \in ParamUpdates : UpdateParameter(u[1], u[2])

SpecReload == InitParams /\ [][NextReload]_vars

\* the time elapsed since the last successful reload
SinceLastReload == now - store.last_reload
\* the step is a maybe_reload() call
MaybeReloadCall == reloader'.calls = reloader.calls + 1

\* C21 (as first stated): maybe_reload() calls reload_params only if the
\* time elapsed since the last successful reload exceeds the interval.
C21_ReloadOnlyPastInterval ==
  [][MaybeReloadCall /\ reloader'.attempted
     => SinceLastReload > RELOAD_INTERVAL]_vars

\* C21: maybe_reload() calls reload_params exactly when the time elapsed
\* since the last successful reload is at least the interval (30 s); a
\* reload that succeeds sets the timestamp to the current time, a reload
\* that fails leaves the timestamp and the cache alone, and so the
\* maybe_reload() that follows a failed reload attempts the reload again.
C21_ReloadWhenIntervalReached ==
  /\ [][MaybeReloadCall
        => /\ reloader'.attempted <=> SinceLastReload >= RELOAD_INTERVAL
           /\ ~ reloader'.attempted => store' = store
           /\ reloader'.attempted /\ reloader'.result
                => store'.last_reload = now /\ store'.params = reloader'.rows
           /\ reloader'.attempted /\ ~ reloader'.result
                => store' = store]_vars
  /\ [][MaybeReloadCall /\ reloader.calls > 0
          /\ reloader.attempted /\ ~ reloader.result
        => reloader'.attempted]_vars

\* 30 s after the last successful reload a maybe_reload() attempted the
\* reload and failed; the next call attempted it again and installed the
\* rows
C21_Witness ==
  /\ reloader.calls = 2
  /\ reloader.attempted
  /\ reloader.result
  /\ reloader.before.last_reload = 0
  /\ reloader.before.params # store.params
  /\ store.last_reload = RELOAD_INTERVAL
  /\ now = RELOAD_INTERVAL

(***************************************************************************)
(* SpecGet: get_param on the ParameterStore of a process whose             *)
(* initialize() loaded the table or failed, with and without a default,    *)
(* for names of the table and for a name that is in no table.              *)
(***************************************************************************)
GetNames == {"MAX_TRADES_PER_HOUR", "MIN_SPREAD_PERCENT", "NOT_A_PARAMETER"}
\* no default, the default 0.0, a default that is no stored value
GetDefaults == {<<>>, <<0>>, <<7>>}

InitGet ==
  /\ InitWith(InitialTables)
  /\ sizer_call = NoSizerCall
  /\ pc = "get_store"
  /\ EmptyHistory

\* get_store(): ParameterStore() and initialize(), whose reload_params
\* loads the rows or leaves the cache empty
InitializeThen(after, outcome) ==
  /\ pc = "get_store"
  /\ pc' = after
  /\ store' = IF outcome = "rows"
              THEN [params |-> get_all_parameters, last_reload |-> now]
              ELSE [params |-> EmptyMap, last_reload |-> 0]
  /\ reloader' = NoReload(store'.params)
  /\ UNCHANGED <<now, loop_counter, riskVars, risk_manager, db_parameters,
                 loopVars, scanVars, execVars, tradeVars, shadow_trades,
                 alerts, obsVars, envVars, last_report, ticks, records,
                 sizer_call, scan_calls, reader>>

Initialize(outcome) == InitializeThen("get_param", outcome)

\* one get_param(name, default) call, lines 56-73
GetParamAt(at, name, default, select_ok) ==
  /\ pc = at
  /\ reader.reads < MaxReads
  /\ LET call == get_param_call(store.params, name, default,
                                get_parameter(name, select_ok))
     IN /\ store' = [store EXCEPT !.params = call.params]
        /\ reader' = [reader EXCEPT
                        !.op = "get_param",
                        !.name = name,
                        !.default = default,
                        !.found = (name \in DOMAIN store.params),
                        !.checked_in = store.params,
                        !.value = call.value,
                        !.fetches = call.fetches,
                        !.seen = call.params,
                        !.reads = @ + 1]
  /\ UNCHANGED <<now, pc, loop_counter, riskVars, risk_manager,
                 db_parameters, loopVars, scanVars, execVars, tradeVars,
                 shadow_trades, alerts, obsVars, envVars, last_report, ticks,
                 records, sizer_call, scan_calls, reloader>>

GetParam(name, default, select_ok) ==
  GetParamAt("get_param", name, default, select_ok)

NextGet ==
  \/ \E outcome \in FetchOutcomes : Initialize(outcome)
  \/ \E name \in GetNames, default \in GetDefaults, select_ok \in BOOLEAN :
       GetParam(name, default, select_ok)

SpecGet == InitGet /\ [][NextGet]_vars

\* C22: get_param(name, default) returns the cached value whenever the name
\* is cached, whatever the default; when the name is not cached and a
\* default is supplied it returns the default, fetches nothing and leaves
\* the cache and the table untouched; only when the name is not cached and
\* no default is supplied it fetches once from the table, and when the row
\* exists it caches the fetched value under the name and returns it.
C22_GetParam ==
  /\ [] (reader.op = "get_param" =>
           /\ reader.found
                => /\ reader.value = reader.checked_in[reader.name]
                   /\ reader.fetches = 0
                   /\ reader.seen = reader.checked_in
           /\ ~ reader.found /\ reader.default # <<>>
                => /\ reader.value = reader.default[1]
                   /\ reader.fetches = 0
                   /\ reader.seen = reader.checked_in
           /\ reader.fetches > 0
                => /\ reader.fetches = 1
                   /\ ~ reader.found
                   /\ reader.default = <<>>
           /\ ~ reader.found /\ reader.default = <<>>
                => /\ reader.fetches = 1
                   /\ reader.name \in DOMAIN reader.seen
                        => /\ reader.name \in DOMAIN db_parameters
                           /\ reader.value = db_parameters[reader.name].value
                           /\ reader.seen[reader.name] = reader.value
                           /\ \A n \in DOMAIN reader.checked_in :
                                reader.seen[n] = reader.checked_in[n])
  /\ [][reader'.reads = reader.reads + 1
        => /\ db_parameters' = db_parameters
           /\ store'.params = reader'.seen
           /\ store.params = reader'.checked_in
           /\ (~ reader'.found /\ reader'.default = <<>>
                 /\ reader'.name \in DOMAIN db_parameters
                 /\ reader'.name \notin DOMAIN reader'.seen)
                => reader'.value = 0]_vars

\* initialize() had failed; a get_param without default fetched the stored
\* value 1 and cached it, and the next call, made with the default 7,
\* returned the cached 1
C22_Witness ==
  /\ reader.reads = 2
  /\ reader.name = "MAX_TRADES_PER_HOUR"
  /\ reader.default = <<7>>
  /\ reader.found
  /\ reader.fetches = 0
  /\ reader.value = 1
  /\ DOMAIN store.params = {"MAX_TRADES_PER_HOUR"}


\* the request of the api_update_param call made last
RequestName == last_report.arg[1]
RequestIsNumber == last_report.arg[2]
RequestValue == last_report.arg[3]
\* the step is an api_update_param call
ApiUpdateCall == last_report'.n = last_report.n + 1

\* C24: an update request with an unknown name, a value that is no number,
\* or a value outside the parameter's inclusive [min, max] is answered with
\* success = false and a message naming the cause, and changes nothing:
\* the table (stored values and updated_at) and the cache are as before.
C24_RejectedUpdateMutatesNothing ==
  [][ApiUpdateCall =>
       LET name == last_report'.arg[1]
           is_number == last_report'.arg[2]
           new_value == last_report'.arg[3]
           unknown == name \notin DOMAIN db_parameters
           out_of_range == /\ ~ unknown
                           /\ \/ new_value < db_parameters[name].min
                              \/ new_value > db_parameters[name].max
       IN /\ (~ is_number \/ unknown \/ out_of_range)
               => /\ ~ last_report'.ok
                  /\ db_parameters' = db_parameters
                  /\ store' = store
                  /\ reloader' = reloader
          /\ ~ is_number => last_report'.result = "Value must be a number"
          /\ is_number /\ unknown
               => last_report'.result = "Unknown parameter"
          /\ is_number /\ out_of_range
               => last_report'.result = "Value out of allowed range"
          /\ ~ last_report'.ok => db_parameters' = db_parameters
          /\ (is_number /\ ~ unknown /\ ~ out_of_range)
               => /\ last_report'.ok
                  /\ db_parameters'[name].value = new_value
                  /\ db_parameters'[name].updated_at = now]_vars

\* MIN_SPREAD_PERCENT was set to 0.05 % at t = 30 s; at t = 60 s a request
\* for 6 % was turned down as out of range and the row still holds 0.05 %
\* and the timestamp of the first update
C24_Witness ==
  /\ last_report.op = "api_update_param"
  /\ RequestName = "MIN_SPREAD_PERCENT"
  /\ RequestIsNumber
  /\ RequestValue = 600
  /\ ~ last_report.ok
  /\ last_report.result = "Value out of allowed range"
  /\ last_report.at = 2 * RELOAD_INTERVAL
  /\ db_parameters["MIN_SPREAD_PERCENT"].value = 5
  /\ db_parameters["MIN_SPREAD_PERCENT"].updated_at = RELOAD_INTERVAL


(***************************************************************************)
(* SpecDash: the decision loop (python main.py) and the dashboard (python   *)
(* api.py), two processes sharing the parameter table.  Each process has   *)
(* its own param_store._store: `store` is the cache of the decision loop,   *)
(* reloader.rows is the mapping the dashboard's cache holds after the      *)
(* reload_params call of its update handler.                               *)
(***************************************************************************)
\* POST /api/params/update served between two cycles of the loop: the
\* request is validated, update_parameter writes the table, and on success
\* get_store().reload_params() reloads the cache of the dashboard process
DashboardUpdate(name, is_number, new_value) ==
  /\ pc = "sleep"
  /\ ext_calls < MaxParamUpdates
  /\ ext_calls' = ext_calls + 1
  /\ LET response == api_update_param(name, is_number, new_value)
     IN /\ db_parameters' = response.table
        /\ last_report' =
             [NoReport EXCEPT !.op = "api_update_param",
                              !.arg = <<name, is_number, new_value>>,
                              !.ok = response.ok,
                              !.result = response.message,
                              !.window = response.status,
                              !.at = now,
                              !.n = ext_calls + 1]
        /\ reloader' =
             IF response.ok
             THEN [reloader EXCEPT
                     !.outcome = "rows",
                     !.rows = [n \in DOMAIN response.table |->
                                 response.table[n].value],
                     !.result = TRUE,
                     !.calls = @ + 1]
             ELSE reloader
  /\ UNCHANGED <<now, pc, loop_counter, riskVars, risk_manager, store,
                 loopVars, scanVars, execVars, tradeVars, shadow_trades,
                 alerts, obsVars, arb_seen, ticks, records, sizer_call,
                 scan_calls, reader>>

NextDash ==
  \/ LoopTop
  \/ \E r \in ApiRequests : DashboardUpdate(r[1], r[2], r[3])
  \/ ApiErrorCheck
  \/ TradingEnabledCheck
  \/ RefreshBalances(BreakerBalances)
  \/ DailyLossCheck
  \/ \E tk \in BreakerMarkets : ScanSymbol(tk)
  \/ StallCheck
  \/ ShadowRecord
  \/ ExecuteBegin
  \/ \E outcome \in BreakerOutcomes : SubmitBuy(outcome)
  \/ \E outcome \in BreakerOutcomes : SubmitSell(outcome)
  \/ \E delay \in SleepDelays(REFRESH_INTERVAL_SECONDS)
                    \cup SleepDelays(BREAKER_SLEEP_SECONDS) : Sleep(delay)

SpecDash == InitBreaker /\ [][NextDash]_vars

\* the step is the parameter refresh that opens a cycle
CycleStarts == pc = "loop_top" /\ pc' = "api_check"

\* C23: once the update endpoint has stored a new value, the first cycle of
\* the decision loop that starts afterwards reads it: after the parameter
\* refresh of every cycle the cache of the loop holds the values of the
\* table, and the RiskManager the trade limit stored there.
C23_UpdateSeenByNextCycle ==
  [][CycleStarts
     => /\ store'.params = get_all_parameters
        /\ risk_manager'.max_trades_per_hour
             = db_parameters["MAX_TRADES_PER_HOUR"].value]_vars

\* the cache of the decision loop changes only in the refresh that opens a
\* cycle, and only when at least RELOAD_INTERVAL seconds have passed since
\* its last successful reload; the update handler never touches it
LoopCacheReloadsOnTimer ==
  [][store' # store => CycleStarts /\ SinceLastReload >= RELOAD_INTERVAL]_vars


\* the shadow records written for an opportunity: same scan time, symbol
\* and venue pair
ShadowRecordsOf(opp) ==
  {k \in DOMAIN shadow_trades :
     /\ shadow_trades[k].timestamp = opp.timestamp
     /\ shadow_trades[k].symbol = opp.symbol
     /\ shadow_trades[k].buy_exchange = opp.buy_exchange_id
     /\ shadow_trades[k].sell_exchange = opp.sell_exchange_id}
\* the shadow step of the cycle that emitted the opportunity is over
PastShadowStep(opp) ==
  opp.timestamp < now \/ pc \notin {"scan", "stall", "shadow"}
\* the orders submitted in the current cycle
OrdersOfCycle == SelectSeq(orders, LAMBDA o : o.cycle = loop_counter)

QuotedOpportunities(symbol, tk) ==
  LET tks == CollectTickers(tk, 1)
  IN IF Len(tks) < 2 THEN <<>>
     ELSE EmittedOpportunities(EvaluatePairs(symbol, tks))

\* the scan of one symbol, as ScanSymbol, and the log entry of the scan
ScanQuoted(tk) ==
  /\ pc = "scan"
  /\ scan_idx <= Len(TRADING_PAIRS)
  /\ (tk \in ArbScenarios) => arb_seen < MaxOpps
  /\ ScanBody(tk, "stall")
  /\ last_report' =
       [last_report EXCEPT
          !.op = "scan",
          !.counted =
            Append(@, [symbol |-> TRADING_PAIRS[scan_idx],
                       at |-> now,
                       enabled |-> TRADING_ENABLED,
                       clears |-> QuotedOpportunities(TRADING_PAIRS[scan_idx],
                                                      tk) # <<>>,
                       trades |-> get_trades_this_hour,
                       limit |-> risk_manager.max_trades_per_hour])]
  /\ UNCHANGED <<now, loop_counter, TRADING_ENABLED, last_alert_message,
                 risk_manager, paramVars, balances, balance_refresh_counter,
                 no_data_alert_sent, exec_idx, executed_count, execVars,
                 tradeVars, shadow_trades, alerts, orders, created,
                 terminal_events, archived, cycle_start, ext_calls, ticks,
                 records, sizer_call, scan_calls, reloader, reader>>

NextWindow ==
  \/ LoopTop
  \/ ApiErrorCheck
  \/ TradingEnabledCheck
  \/ RefreshBalances(BreakerBalances)
  \/ DailyLossCheck
  \/ \E tk \in BreakerMarkets : ScanQuoted(tk)
  \/ StallCheck
  \/ ShadowRecord
  \/ ExecuteBegin
  \/ \E outcome \in BreakerOutcomes : SubmitBuy(outcome)
  \/ \E outcome \in BreakerOutcomes : SubmitSell(outcome)
  \/ \E delay \in SleepDelays(REFRESH_INTERVAL_SECONDS)
                    \cup SleepDelays(BREAKER_SLEEP_SECONDS) : Sleep(delay)

SpecWindow == Init /\ [][NextWindow]_vars

\* the scans logged so far
ScanLog == last_report.counted
\* the scan was made with trading enabled, the quotes held a venue pair
\* that clears the effective minimum spread, and the shadow step of its
\* cycle is over
ShadowDue(q) ==
  /\ q.enabled
  /\ q.clears
  /\ q.at < now \/ pc \notin {"scan", "stall", "shadow"}
ShadowWritten(q) ==
  \E j \in DOMAIN shadow_trades :
    /\ shadow_trades[j].timestamp = q.at
    /\ shadow_trades[j].symbol = q.symbol

ShadowFollowsTradeWindow ==
  \A k \in DOMAIN ScanLog :
    ShadowDue(ScanLog[k])
      => (ShadowWritten(ScanLog[k])
            <=> ScanLog[k].trades < ScanLog[k].limit)


(***************************************************************************)
(* SpecCooldown: symbols put on cooldown through disable_symbol_temporarily *)
(* while the scanner runs every 5 s or after an hour, the kill-switch is   *)
(* operated and should_trade_now is asked from outside the scanner.        *)
(***************************************************************************)
MaxCooldownScans == 2
\* the hours a symbol is disabled for
CooldownHours == {1}
\* the waits between two scans: the refresh interval, and what is left of
\* an hour after it
CooldownWaits == {REFRESH_INTERVAL_SECONDS, 3600 - REFRESH_INTERVAL_SECONDS}

InitCooldown ==
  /\ InitWith({DEFAULT_PARAMETERS})
  /\ sizer_call = NoSizerCall
  /\ pc = "sleep"
  /\ EmptyHistory

\* risk.disable_symbol_temporarily(symbol, hours)
disable_symbol_temporarily(symbol, hours) ==
  /\ pc = "sleep"
  /\ records < MaxRecords
  /\ records' = records + 1
  /\ symbol_disabled_until' =
       [s \in DOMAIN symbol_disabled_until \cup {symbol} |->
          IF s = symbol THEN now + hours * 3600
          ELSE symbol_disabled_until[s]]
  /\ UNCHANGED <<now, pc, loop_counter, TRADING_ENABLED, api_errors,
                 trades_this_hour, last_opportunity_time, last_alert_message,
                 price_history, risk_manager, paramVars, loopVars, scanVars,
                 execVars, tradeVars, shadow_trades, alerts, obsVars,
                 envVars, last_report, ticks, sizer_call, scan_calls,
                 reloader, reader>>

\* the next find_arbitrage_opportunities call begins, d seconds later
ScanAgainAfter(d, max_scans) ==
  /\ pc = "sleep"
  /\ scan_calls < max_scans
  /\ scan_calls' = scan_calls + 1
  /\ now' = now + d
  /\ opportunities' = <<>>
  /\ tickers' = <<>>
  /\ evaluated' = <<>>
  /\ scan_idx' = 1
  /\ pc' = "scan"
  /\ UNCHANGED <<loop_counter, riskVars, risk_manager, paramVars, balances,
                 balance_refresh_counter, no_data_alert_sent, exec_idx,
                 executed_count, execVars, tradeVars,
                 shadow_trades, alerts, obsVars, envVars, last_report, ticks,
                 records, sizer_call, reloader, reader>>

\* the scan of one symbol; the function returns after the last symbol
CooldownScan(tk) ==
  /\ pc = "scan"
  /\ scan_idx <= Len(TRADING_PAIRS)
  /\ ScanBody(tk, "sleep")
  /\ UNCHANGED <<now, loop_counter, TRADING_ENABLED, last_alert_message,
                 risk_manager, paramVars, balances, balance_refresh_counter,
                 no_data_alert_sent, exec_idx, executed_count, execVars,
                 tradeVars, shadow_trades, alerts, orders, created,
                 terminal_events, archived, cycle_start, ext_calls,
                 harnessVars>>

NextCooldown ==
  \/ \E symbol \in Symbols, hours \in CooldownHours :
       disable_symbol_temporarily(symbol, hours)
  \/ \E enabled \in BOOLEAN : ExtSetTradingEnabled(enabled)
  \/ \E symbol \in Symbols : ExtShouldTradeNow(symbol)
  \/ \E d \in CooldownWaits : ScanAgainAfter(d, MaxCooldownScans)
  \/ \E tk \in BreakerMarkets : CooldownScan(tk)

SpecCooldown == InitCooldown /\ [][NextCooldown]_vars

\* the step evaluates should_trade_now for symbol s
Evaluates(s) == last_stn'.n = last_stn.n + 1 /\ last_stn'.symbol = s
\* the cooldown of symbol s is running / has run out
CoolingDown(s) ==
  s \in DOMAIN symbol_disabled_until /\ now < symbol_disabled_until[s]
CooldownOver(s) ==
  s \in DOMAIN symbol_disabled_until /\ now >= symbol_disabled_until[s]

\* C27: while the disabled-until time of a symbol lies in the future,
\* should_trade_now(symbol) is false and the scanner fetches no quote and
\* emits no opportunity for the symbol; the first should_trade_now(symbol)
\* evaluated at or after the expiry with trading enabled removes the entry
\* (with the kill-switch off the entry stays), and afterwards the symbol
\* has no entry until it is disabled again.
C27_CooldownBlocksUntilExpiry ==
  [][\A s \in Symbols :
       /\ Evaluates(s) /\ CoolingDown(s)
            => /\ ~ last_stn'.ok
               /\ ticker_fetches' = ticker_fetches
               /\ opportunities' = opportunities
               /\ symbol_disabled_until' = symbol_disabled_until
       /\ Evaluates(s) /\ CooldownOver(s)
            => IF TRADING_ENABLED
               THEN /\ s \notin DOMAIN symbol_disabled_until'
                    /\ last_stn'.ok
               ELSE /\ symbol_disabled_until' = symbol_disabled_until
                    /\ ~ last_stn'.ok
       /\ ticker_fetches' # ticker_fetches
            /\ ticker_fetches'[Len(ticker_fetches')].symbol = s
            => ~ CoolingDown(s) /\ s \notin DOMAIN symbol_disabled_until'
       /\ s \notin DOMAIN symbol_disabled_until
            /\ s \in DOMAIN symbol_disabled_until'
            => /\ records' = records + 1
               /\ symbol_disabled_until'[s] > now]_vars

\* a symbol was disabled at t = 0 for an hour, skipped by the scan at
\* t = 5 s, and scanned again at t = 3600 s, the moment of expiry: its entry
\* is gone and its quotes were fetched
C27_Witness ==
  /\ now = 3600
  /\ symbol_disabled_until = EmptyMap
  /\ records = 1
  /\ last_stn.ok
  /\ last_stn.at = 3600
  /\ Len(ticker_fetches) = 3
  /\ ticker_fetches[3].at = 3600
  /\ \E s \in Symbols :
       \A k \in DOMAIN ticker_fetches :
         ticker_fetches[k].symbol = s => ticker_fetches[k].at = 3600


(***************************************************************************)
(* SpecStall: the scan and the stall detector of successive cycles         *)
(* (main.py lines 166-183), the cycles 5 s, 120 s or 125 s apart, with a    *)
(* log of the stall evaluations.                                           *)
(***************************************************************************)
MaxStallRounds == 4
\* the waits between two cycles: the refresh interval, the stall timeout,
\* and the first whole refresh interval past the timeout
StallWaits ==
  {REFRESH_INTERVAL_SECONDS, NO_DATA_ALERT_SECONDS,
   NO_DATA_ALERT_SECONDS + REFRESH_INTERVAL_SECONDS}

\* the stall evaluation of a cycle, lines 174-183, and its log entry
StallEvaluation ==
  /\ pc = "stall"
  /\ StallBody("sleep")
  /\ last_report' =
       [last_report EXCEPT
          !.op = "stall",
          !.counted =
            Append(@, [at |-> now,
                       stalled |-> (now - last_opportunity_time
                                      > NO_DATA_ALERT_SECONDS),
                       emitted |-> Len(opportunities),
                       alerted |-> (alerts' # alerts)])]
  /\ UNCHANGED <<now, loop_counter, riskVars, risk_manager, paramVars,
                 balances, balance_refresh_counter, opportunities, scan_idx,
                 exec_idx, executed_count, scanVars, execVars, tradeVars,
                 shadow_trades, obsVars, envVars, ticks, records, sizer_call,
                 scan_calls, reloader, reader>>

NextStall ==
  \/ \E d \in StallWaits : ScanAgainAfter(d, MaxStallRounds)
  \/ \E tk \in BreakerMarkets : ScanSymbol(tk)
  \/ StallEvaluation

SpecStall == InitCooldown /\ [][NextStall]_vars

\* the stall evaluations logged so far
StallLog == last_report.counted

\* C28: a stall alert is raised at a stall evaluation exactly when more
\* than NO_DATA_ALERT_SECONDS have passed since the last emitted opportunity
\* and the evaluation before it, if any, was not stalled; so between any
\* two stall alerts there is an evaluation at which the condition was
\* false.  Emitting an opportunity sets the last-opportunity time to the
\* current time, and the evaluation of a cycle that emitted one is not
\* stalled.
C28_StallAlertOneShot ==
  /\ [] (\A k \in DOMAIN StallLog :
           StallLog[k].alerted
             <=> /\ StallLog[k].stalled
                 /\ k > 1 => ~ StallLog[k - 1].stalled)
  /\ [] (\A j, k \in DOMAIN StallLog :
           j < k /\ StallLog[j].alerted /\ StallLog[k].alerted
             => \E m \in (j + 1)..(k - 1) : ~ StallLog[m].stalled)
  /\ [] (\A k \in DOMAIN StallLog :
           StallLog[k].emitted > 0 => ~ StallLog[k].stalled)
  /\ [] (Len(SelectSeq(alerts, LAMBDA a : a.subject = "No Data Alert"))
           = Len(SelectSeq(StallLog, LAMBDA e : e.alerted)))
  /\ [][Len(opportunities') > Len(opportunities)
        => last_opportunity_time' = now]_vars

\* four evaluations: stalled and alerted, still stalled and silent, clear
\* after an opportunity was emitted, stalled and alerted again
C28_Witness ==
  /\ Len(StallLog) = 4
  /\ StallLog[1].alerted
  /\ StallLog[2].stalled /\ ~ StallLog[2].alerted
  /\ ~ StallLog[3].stalled /\ StallLog[3].emitted > 0
  /\ StallLog[4].alerted
  /\ Len(alerts) = 2


(***************************************************************************)
(* SpecVolatility: prices fed to update_price_history one at a time, and    *)
(* should_trade_now asked between them, under a stored volatility          *)
(* threshold of 0.5 % or 2 %.                                              *)
(***************************************************************************)
MaxPrices == 3
\* 100 -> 102 is a move of exactly 2 %, 100 -> 103 one of 3 %
VolatilityPrices == {0, 100, 102, 103}
VolatilityTables ==
  {[DEFAULT_PARAMETERS EXCEPT !["VOLATILITY_THRESHOLD_PERCENT"].value = v] :
     v \in {50, VOLATILITY_THRESHOLD_PERCENT}}

InitVolatility ==
  /\ InitWith(VolatilityTables)
  /\ sizer_call = NoSizerCall
  /\ pc = "sleep"
  /\ EmptyHistory

\* risk.update_price_history(symbol, price)
ExtUpdatePriceHistory(symbol, price) ==
  /\ pc = "sleep"
  /\ records < MaxPrices
  /\ records' = records + 1
  /\ price_history' = update_price_history(price_history, symbol, price)
  /\ UNCHANGED <<now, pc, loop_counter, TRADING_ENABLED, api_errors,
                 trades_this_hour, last_opportunity_time, last_alert_message,
                 symbol_disabled_until, risk_manager, paramVars, loopVars,
                 scanVars, execVars, tradeVars, shadow_trades, alerts,
                 obsVars, envVars, last_report, ticks, sizer_call,
                 scan_calls, reloader, reader>>

NextVolatility ==
  \/ \E symbol \in Symbols, price \in VolatilityPrices :
       ExtUpdatePriceHistory(symbol, price)
  \/ \E symbol \in Symbols : ExtShouldTradeNow(symbol)

SpecVolatility == InitVolatility /\ [][NextVolatility]_vars

\* the price window of a symbol (empty when none was recorded)
PriceWindow(s) ==
  IF s \in DOMAIN price_history THEN price_history[s] ELSE <<>>
\* (max - min) / min x 100 is greater than the threshold, the threshold
\* being in hundredths of a percent
SwingAbove(w, threshold_percent) ==
  \E i, j \in DOMAIN w :
    /\ \A k \in DOMAIN w : w[i] <= w[k] /\ w[k] <= w[j]
    /\ (w[j] - w[i]) * 10000 > threshold_percent * w[i]
\* some price of the window is zero or negative
HasNonPositive(w) == \E k \in DOMAIN w : w[k] <= 0

\* C29: the volatility check over a price window fails exactly when
\* (max - min) / min x 100 is greater than the threshold, and passes when
\* the window holds fewer than two prices or its minimum is <= 0; and
\* should_trade_now(symbol) is false whenever the check fails on the window
\* of the symbol (and here, nothing else blocking, true whenever it passes).
C29_VolatilityCheck ==
  /\ [] (\A s \in Symbols :
           LET w == PriceWindow(s)
               passes == check_volatility(w, risk_manager.volatility_threshold)
           IN /\ ~ passes
                   <=> SwingAbove(w, risk_manager.volatility_threshold)
                         /\ ~ HasNonPositive(w)
              /\ Len(w) < 2 => passes
              /\ HasNonPositive(w) => passes)
  /\ [][\A s \in Symbols :
          Evaluates(s)
            => /\ ~ check_volatility(PriceWindow(s),
                                     risk_manager.volatility_threshold)
                    => ~ last_stn'.ok
               /\ last_stn'.ok
                    <=> ~ (SwingAbove(PriceWindow(s),
                                      risk_manager.volatility_threshold)
                             /\ ~ HasNonPositive(PriceWindow(s)))]_vars

\* under the 2 % threshold should_trade_now passed a symbol whose window
\* was 100, 102 (a move of exactly 2 %) and then refused it when 103 had
\* been added
C29_Witness ==
  /\ risk_manager.volatility_threshold = VOLATILITY_THRESHOLD_PERCENT
  /\ last_stn.n = 2
  /\ ~ last_stn.ok
  /\ PriceWindow(last_stn.symbol) = <<100, 102, 103>>
  /\ ext_calls = 2


\* the steps that may follow a step of the cycle, in the order of main()
StepsAfter(step) ==
  CASE step = "loop_top" -> {"api_check"}
    [] step = "api_check" -> {"enabled_check", "breaker_sleep"}
    [] step = "enabled_check" -> {"balances", "sleep"}
    [] step = "balances" -> {"loss_check"}
    [] step = "loss_check" -> {"scan", "halted"}
    [] step = "scan" -> {"scan", "stall"}
    [] step = "stall" -> {"shadow"}
    [] step = "shadow" -> {"exec"}
    [] step = "exec" -> {"exec", "buy", "sleep"}
    [] step = "buy" -> {"sell", "exec"}
    [] step = "sell" -> {"exec"}
    [] step \in {"sleep", "breaker_sleep"} -> {"loop_top"}
    [] OTHER -> {}
\* an order of the current cycle was submitted
OrderSubmittedThisCycle ==
  \E k \in DOMAIN orders : orders[k].cycle = loop_counter

\* C30: the steps of a cycle follow each other in the order of main():
\* parameter refresh, API-error breaker, kill-switch, (balances,) daily
\* loss, the scan of the symbols with one should_trade_now each, the stall
\* check, the shadow records, the executions, the sleep.  So every
\* per-symbol should_trade_now of a cycle is made in the scan, before any
\* order of the cycle and at most once per symbol; shadow records are
\* written before any order of the cycle; orders are submitted only in the
\* execution steps; the cache is refreshed only at the top; and a cycle
\* begins only after the sleep that ends the one before.
C30_CycleStepOrder ==
  /\ [][pc' \in StepsAfter(pc)]_pc
  /\ [][loop_counter' = loop_counter + 1 /\ pc = "loop_top"]_loop_counter
  /\ [][pc = "loop_top"]_store
  /\ [][/\ pc = "scan"
        /\ last_stn'.n = last_stn.n + 1
        /\ last_stn'.symbol = TRADING_PAIRS[scan_idx]
        /\ scan_idx' = scan_idx + 1
        /\ ~ OrderSubmittedThisCycle]_last_stn
  /\ [][pc = "shadow" /\ ~ OrderSubmittedThisCycle]_shadow_trades
  /\ [][/\ pc \in {"buy", "sell"}
        /\ Len(orders') = Len(orders) + 1
        /\ orders'[Len(orders')].cycle = loop_counter]_orders
  /\ [] (last_stn.n <= loop_counter * Len(TRADING_PAIRS))
  /\ [] (pc \in {"scan", "stall", "shadow"} => ~ OrderSubmittedThisCycle)

\* the second cycle is at its sell order: both cycles read should_trade_now
\* once per symbol, the last read and the shadow record of the cycle were
\* made at the time of the cycle, before its buy order
C30_Witness ==
  /\ pc = "sell"
  /\ loop_counter = 2
  /\ last_stn.n = 2 * Len(TRADING_PAIRS)
  /\ last_stn.at = now
  /\ \E j \in DOMAIN shadow_trades : shadow_trades[j].timestamp = now
  /\ \E k \in DOMAIN orders :
       /\ orders[k].cycle = 2
       /\ orders[k].order.side = "buy"
       /\ orders[k].at = now


\* the orders submitted for a trade, by side
OrdersFor(id, side) ==
  {k \in DOMAIN orders : orders[k].trade = id /\ orders[k].order.side = side}
OrderedTrades == {orders[k].trade : k \in DOMAIN orders}

\* C31: for every trade at most one buy and one sell order are submitted;
\* a sell order comes after the buy order of its trade, and only when that
\* buy order returned without exception and without error payload; after a
\* buy_exception or buy_failed outcome the trade never gets a sell order.
C31_BuyBeforeSell ==
  /\ [] (\A id \in OrderedTrades :
           /\ Cardinality(OrdersFor(id, "buy")) = 1
           /\ Cardinality(OrdersFor(id, "sell")) <= 1
           /\ \A s \in OrdersFor(id, "sell") :
                \E b \in OrdersFor(id, "buy") :
                  b < s /\ orders[b].outcome = "ok"
           /\ (\E b \in OrdersFor(id, "buy") : orders[b].outcome # "ok")
                => OrdersFor(id, "sell") = {})
  /\ [][\A k \in DOMAIN orders : orders'[k] = orders[k]]_orders

\* the trade of a buy order that raised has failed with buy_exception and
\* got no sell order, and a later trade got its buy and then its sell order
C31_Witness ==
  \E b, c, s \in DOMAIN orders :
    /\ b < c /\ c < s
    /\ orders[b].order.side = "buy"
    /\ orders[b].outcome = "exception"
    /\ OrdersFor(orders[b].trade, "sell") = {}
    /\ <<orders[b].trade, "failed">> \in SeqToSet(terminal_events)
    /\ orders[c].trade # orders[b].trade
    /\ orders[c].order.side = "buy"
    /\ orders[s].trade = orders[c].trade
    /\ orders[s].order.side = "sell"


(***************************************************************************)
(* SpecFeed: find_arbitrage_opportunities called six times, 5 s apart,     *)
(* each symbol quoted flat, with a spread, or by one venue only: up to     *)
(* twelve mid-prices per symbol.                                           *)
(***************************************************************************)
MaxFeedScans == 6
FeedMarkets == {FlatMarket, ArbMarket, VenueDown}

NextFeed ==
  \/ ScanAgainAfter(REFRESH_INTERVAL_SECONDS, MaxFeedScans)
  \/ \E tk \in FeedMarkets : CooldownScan(tk)

SpecFeed == InitCooldown /\ [][NextFeed]_vars

\* the mid-prices of the quotes collected in a scan
MidPrices(tks) == [k \in DOMAIN tks |-> (tks[k].bid + tks[k].ask) \div 2]
\* the last PRICE_HISTORY_MAX_SIZE prices of a sequence
NewestPrices(w) ==
  IF Len(w) <= PRICE_HISTORY_MAX_SIZE THEN w
  ELSE SubSeq(w, Len(w) - PRICE_HISTORY_MAX_SIZE + 1, Len(w))

\* C32: the price window of a symbol never holds more than 10 prices; a
\* scan of the symbol appends the mid-price (bid + ask) / 2 of every valid
\* quote it fetched, in the order of the venues, whether or not an
\* opportunity is emitted, and prices appended to a full window push out
\* the oldest ones; no other symbol's window changes.
C32_PriceWindowBounded ==
  /\ [] (\A s \in DOMAIN price_history :
           Len(price_history[s]) <= PRICE_HISTORY_MAX_SIZE)
  /\ [][\A s \in Symbols :
          IF Evaluates(s) /\ last_stn'.ok
          THEN PriceWindow(s)' =
                 NewestPrices(PriceWindow(s) \o MidPrices(tickers'))
          ELSE PriceWindow(s)' = PriceWindow(s)]_vars

\* a full window of 100s got the mid-prices 100 and 102 of a scan that
\* emitted an opportunity: the two oldest prices are gone
C32_Witness ==
  \E s \in Symbols :
    /\ last_stn.symbol = s
    /\ Len(PriceWindow(s)) = PRICE_HISTORY_MAX_SIZE
    /\ scan_calls = MaxFeedScans
    /\ SubSeq(PriceWindow(s), 1, 8) = [k \in 1..8 |-> 100]
    /\ SubSeq(PriceWindow(s), 9, 10) = <<100, 102>>
    /\ Len(tickers) = 2
    /\ \E k \in DOMAIN evaluated : evaluated[k].emitted


\* the positions of one call of execute_arbitrage_opportunity between the
\* creation of the pending trade and its return
InsideExecution == pc \in {"buy", "sell"}

\* C33: outside a call of execute_arbitrage_opportunity the pending-trade
\* list is empty: at every cycle boundary and at every evaluation of the
\* open-trade cap open_trades = [] and get_open_trades_count() = 0; inside
\* a call it holds exactly the one pending trade of that call, which the
\* return of the call (failed or completed) removes.
C33_NoOpenTradeOutsideExecution ==
  /\ [] (~ InsideExecution =>
           open_trades = <<>> /\ get_open_trades_count = 0)
  /\ [] (InsideExecution =>
           /\ Len(open_trades) = 1
           /\ open_trades[1].id = trade_id
           /\ open_trades[1].status = "pending")
  /\ [][InsideExecution /\ ~ InsideExecution' => open_trades' = <<>>]_vars

\* the cap is evaluated after one trade of the cycle failed and another
\* was completed, and the list is empty
C33_Witness ==
  /\ pc = "exec"
  /\ exec_idx > 2
  /\ open_trades = <<>>
  /\ \E i, j \in DOMAIN trade_history :
       /\ trade_history[i].status = "failed"
       /\ trade_history[j].status = "completed"


(***************************************************************************)
(* SpecLatch: find_arbitrage_opportunities called four times, 5 s apart,   *)
(* each symbol quoted flat, with a 2 % spread or with a 4 % spread, the    *)
(* volatility threshold staying at its default of 2 %.                     *)
(***************************************************************************)
MaxLatchScans == 4
LatchMarkets == {FlatMarket, ArbMarket, WideArbMarket}

NextLatch ==
  \/ ScanAgainAfter(REFRESH_INTERVAL_SECONDS, MaxLatchScans)
  \/ \E tk \in LatchMarkets : CooldownScan(tk)

SpecLatch == InitCooldown /\ [][NextLatch]_vars

\* the volatility check fails on the window of symbol s
VolatilityBlocked(s) ==
  /\ SwingAbove(PriceWindow(s), risk_manager.volatility_threshold)
  /\ ~ HasNonPositive(PriceWindow(s))
\* the opportunities of symbol s in a list
OpportunitiesOf(opps, s) == SelectSeq(opps, LAMBDA o : o.symbol = s)

\* C34: the price window of a symbol changes only in a scan step in which
\* should_trade_now(symbol) returned true; once the volatility check fails
\* on the window, with the threshold unchanged, every later scan of the
\* symbol finds should_trade_now false, fetches nothing and emits nothing
\* for it, and the window is never changed again.
C34_VolatilityLatch ==
  [][\A s \in Symbols :
       /\ PriceWindow(s)' # PriceWindow(s)
            => Evaluates(s) /\ last_stn'.ok
       /\ VolatilityBlocked(s)
            => /\ PriceWindow(s)' = PriceWindow(s)
               /\ VolatilityBlocked(s)'
               /\ Evaluates(s)
                    => /\ ~ last_stn'.ok
                       /\ ticker_fetches' = ticker_fetches
                       /\ OpportunitiesOf(opportunities', s)
                            = OpportunitiesOf(opportunities, s)]_vars

\* the window <<100, 104>> of the first scan blocked the symbol, and the
\* fourth scan has skipped it again
C34_Witness ==
  \E s \in Symbols :
    /\ scan_calls = MaxLatchScans
    /\ last_stn.symbol = s
    /\ ~ last_stn.ok
    /\ PriceWindow(s) = <<100, 104>>
    /\ VolatilityBlocked(s)


(***************************************************************************)
(* SpecSpread: the decision loop entered with a parameter table whose      *)
(* MIN_SPREAD_PERCENT and SAFETY_MARGIN_SPREAD are the defaults, the lower *)
(* bounds or the upper bounds of their rows; quotes flat, 1 % apart or     *)
(* 2 % apart.                                                              *)
(***************************************************************************)
ThinArbMarket == [kraken |-> Quote(100, 100), okx |-> Quote(101, 101)]
SpreadMarkets == {FlatMarket, ThinArbMarket, ArbMarket}
SpreadRows ==
  {<<MIN_SPREAD_PERCENT, SAFETY_MARGIN_SPREAD>>, <<5, 5>>, <<5, 500>>,
   <<500, 5>>, <<500, 500>>}
SpreadTables ==
  {[DEFAULT_PARAMETERS EXCEPT !["MIN_SPREAD_PERCENT"].value = r[1],
                              !["SAFETY_MARGIN_SPREAD"].value = r[2]] :
     r \in SpreadRows}

InitSpread ==
  /\ InitWith(SpreadTables)
  /\ sizer_call = NoSizerCall
  /\ pc = "loop_top"
  /\ EmptyHistory

NextSpread ==
  \/ LoopTop
  \/ ApiErrorCheck
  \/ TradingEnabledCheck
  \/ RefreshBalances(BreakerBalances)
  \/ DailyLossCheck
  \/ \E tk \in SpreadMarkets : ScanSymbol(tk)
  \/ StallCheck
  \/ ShadowRecord
  \/ ExecuteBegin
  \/ SubmitBuy("ok")
  \/ SubmitSell("ok")
  \/ Sleep(REFRESH_INTERVAL_SECONDS)

SpecSpread == InitSpread /\ [][NextSpread]_vars

\* the two decisions as functions of the opportunity and config.py alone
EmitByConfig(o) ==
  o.net_spread_percent
    >= EXCHANGE_FEES[o.buy_exchange_id] + EXCHANGE_FEES[o.sell_exchange_id]
         + MAX_SLIPPAGE_PERCENT + SAFETY_MARGIN_SPREAD
DegradedByConfig(o) ==
  o.net_spread_percent - MAX_SLIPPAGE_PERCENT >= MIN_SPREAD_PERCENT
\* the opportunity record as a function of the two quotes and config.py
RecordByConfig(o) ==
  \E i, j \in DOMAIN tickers :
    /\ i # j
    /\ o.buy_exchange_id = tickers[i].exchange
    /\ o.sell_exchange_id = tickers[j].exchange
    /\ o.buy_price = tickers[i].ask
    /\ o.sell_price = tickers[j].bid
    /\ o.net_spread_percent =
         ((tickers[j].bid - tickers[i].ask) * 10000) \div tickers[i].ask
           - (EXCHANGE_FEES[tickers[i].exchange]
                + EXCHANGE_FEES[tickers[j].exchange])
    /\ o.effective_min_spread =
         EXCHANGE_FEES[tickers[i].exchange]
           + EXCHANGE_FEES[tickers[j].exchange]
           + MAX_SLIPPAGE_PERCENT + SAFETY_MARGIN_SPREAD

MaxBalanceCycles == 7
BalanceReports ==
  {[kraken |-> FullBalance, okx |-> FullBalance],
   [kraken |-> LowBaseBalance, okx |-> LowBaseBalance]}

NextBalances ==
  \/ LoopTopWithin(MaxBalanceCycles)
  \/ ApiErrorCheck
  \/ TradingEnabledCheck
  \/ \E fetched \in BalanceReports : RefreshBalances(fetched)
  \/ DailyLossCheck
  \/ \E tk \in BreakerMarkets : ScanSymbol(tk)
  \/ StallCheck
  \/ ShadowRecord
  \/ ExecuteBegin
  \/ SubmitBuy("ok")
  \/ SubmitSell("ok")
  \/ SleepWithin(REFRESH_INTERVAL_SECONDS, MaxBalanceCycles)

SpecBalances == InitBreaker /\ [][NextBalances]_vars

\* the position sizes of the trades archived so far
ArchivedSizes == [k \in DOMAIN trade_history |-> trade_history[k].position_size]

\* C36: the balance snapshot changes only in the balance step of a cycle,
\* and there only in the first cycle and every sixth cycle after it (every
\* cycle reaching the step here); no step of execute_arbitrage_opportunity
\* changes it, so every execution between two refreshes reads the same
\* balances however many trades were completed in between.
C36_BalancesChangeOnlyAtRefresh ==
  /\ [][balances' # balances
          => /\ pc = "balances"
             /\ loop_counter % BALANCE_REFRESH_INTERVAL = 1]_vars
  /\ [][(pc \in {"exec", "buy", "sell"}) => (balances' = balances)]_vars
  /\ [][(pc = "balances" /\ pc' # pc)
          => (loop_counter % BALANCE_REFRESH_INTERVAL = 1
                <=> balance_refresh_counter' = 1)]_vars

\* two trades of equal size were completed on the first snapshot, and the
\* low balances reported since were taken into the snapshot in cycle seven
C36_Witness ==
  /\ loop_counter = MaxBalanceCycles
  /\ pc = "loss_check"
  /\ balances = [kraken |-> LowBaseBalance, okx |-> LowBaseBalance]
  /\ Len(trade_history) = 2
  /\ \A k \in DOMAIN trade_history : trade_history[k].status = "completed"
  /\ ArchivedSizes[1] = ArchivedSizes[2]
  /\ ArchivedSizes[1] > LowBaseBalance.BTC


\* the step ends a trade with this status
TradeEnds(status) ==
  /\ Len(terminal_events') = Len(terminal_events) + 1
  /\ terminal_events'[Len(terminal_events')][2] = status
\* the step is an execution attempt that returns before a trade is created
AttemptWithoutTrade ==
  /\ pc = "exec" /\ pc' = "exec"
  /\ exec_idx' = exec_idx + 1
DailyPnl == risk_manager.current_daily_pnl_usd

\* C37: a step that ends a trade as failed (buy_exception, buy_failed,
\* sell_exception or sell_failed) and an execution attempt that creates no
\* trade leave the daily PnL and the trailing-hour trade window as they
\* were; the window gets longer only in a step that completes a trade,
\* which appends the one timestamp of that moment, and the daily PnL
\* changes in no other step.
C37_FailuresLeaveAccountingAlone ==
  [][/\ (TradeEnds("failed") \/ AttemptWithoutTrade)
          => /\ DailyPnl' = DailyPnl
             /\ trades_this_hour' = trades_this_hour
     /\ TradeEnds("completed")
          => trades_this_hour' = Append(trades_this_hour, now)
     /\ Len(trades_this_hour') > Len(trades_this_hour)
          => TradeEnds("completed")
     /\ DailyPnl' # DailyPnl => TradeEnds("completed")]_vars

\* one trade was completed and then one failed on its sell leg, in the
\* same cycle: the window holds the one timestamp of the completed trade
\* and the daily PnL is that trade's profit
C37_Witness ==
  /\ Len(trade_history) = 2
  /\ trade_history[1].status = "completed"
  /\ trade_history[2].failure_reason = "sell_exception"
  /\ trades_this_hour = <<now>>
  /\ DailyPnl = EstimatedNetProfit(trade_history[1])
  /\ DailyPnl # 0


(***************************************************************************)
(* SpecDirections: the body of the pair loop of                            *)
(* find_arbitrage_opportunities applied once, in both directions, to the   *)
(* quotes of two venues, under a config.py whose taker fees, slippage and  *)
(* safety margin are the shipped ones or zero.                             *)
(***************************************************************************)
DirectionPrices == {100, 101, 103}
DirectionQuotes ==
  {Quote(bid, ask) : bid \in DirectionPrices, ask \in DirectionPrices}
\* config.py as shipped, and its edits to zero
ConfigPy ==
  [fees |-> [kraken |-> EXCHANGE_FEES.kraken, okx |-> EXCHANGE_FEES.okx],
   slippage |-> MAX_SLIPPAGE_PERCENT, margin |-> SAFETY_MARGIN_SPREAD]
DirectionConfigs ==
  {[fees |-> [kraken |-> fk, okx |-> fo], slippage |-> sl, margin |-> mg] :
     fk \in {0, EXCHANGE_FEES.kraken}, fo \in {0, EXCHANGE_FEES.okx},
     sl \in {0, MAX_SLIPPAGE_PERCENT}, mg \in {0, SAFETY_MARGIN_SPREAD}}

\* a pair loop body that looks at the size of the raw spread only
EmitsWith_Magnitude(cfg, buy, sell) ==
  LET buy_price == buy.ask
      sell_price == sell.bid
      raw_spread_percent ==
        ((IF sell_price >= buy_price THEN sell_price - buy_price
          ELSE buy_price - sell_price) * 10000) \div buy_price
      total_fees_percent == cfg.fees[buy.exchange] + cfg.fees[sell.exchange]
  IN /\ buy_price > 0
     /\ raw_spread_percent - total_fees_percent
          >= total_fees_percent + cfg.slippage + cfg.margin

\* lines 84-102: the pair (buy venue, sell venue) is emitted, config.py
\* being cfg
EmitsWith(cfg, buy, sell) ==
  LET buy_price == buy.ask
      sell_price == sell.bid
      raw_spread_percent == ((sell_price - buy_price) * 10000) \div buy_price
      total_fees_percent == cfg.fees[buy.exchange] + cfg.fees[sell.exchange]
  IN /\ buy_price > 0
     /\ raw_spread_percent - total_fees_percent
          >= total_fees_percent + cfg.slippage + cfg.margin

\* one scan of a symbol quoted by kraken (qa) and okx (qb)
ScanDirections(cfg, qa, qb) ==
  /\ pc = "sleep"
  /\ last_report = NoReport
  /\ LET a == [exchange |-> "kraken", bid |-> qa.bid, ask |-> qa.ask]
         b == [exchange |-> "okx", bid |-> qb.bid, ask |-> qb.ask]
     IN last_report' =
          [NoReport EXCEPT
             !.op = "directions",
             !.counted = <<[cfg |-> cfg, a |-> a, b |-> b,
                            ab |-> EmitsWith(cfg, a, b),
                            ba |-> EmitsWith(cfg, b, a)]>>]
  /\ UNCHANGED <<now, pc, loop_counter, riskVars, risk_manager, paramVars,
                 loopVars, scanVars, execVars, tradeVars, shadow_trades,
                 alerts, obsVars, envVars, ticks, records, sizer_call,
                 scan_calls, reloader, reader>>

NextDirections ==
  \E cfg \in DirectionConfigs, qa \in DirectionQuotes, qb \in DirectionQuotes :
    ScanDirections(cfg, qa, qb)

SpecDirections == InitCooldown /\ [][NextDirections]_vars

\* the scans made, the quotes being 0 < bid <= ask on both venues
OrderedQuoteScans ==
  {k \in DOMAIN last_report.counted :
     LET r == last_report.counted[k]
     IN /\ 0 < r.a.bid /\ r.a.bid <= r.a.ask
        /\ 0 < r.b.bid /\ r.b.bid <= r.b.ask}
\* fees + slippage + margin of a scan, which the claim takes as >= 0
ThresholdOf(r) ==
  r.cfg.fees.kraken + r.cfg.fees.okx + r.cfg.slippage + r.cfg.margin

\* C38: with 0 < bid <= ask on both venues and fees, slippage and margin
\* that are not all zero, a scan never emits both buy-on-A/sell-on-B and
\* buy-on-B/sell-on-A; and under config.py as shipped the decision is the
\* one find_arbitrage_opportunities takes.
C38_OneDirectionWhenThresholdPositive ==
  /\ \A k \in OrderedQuoteScans :
       LET r == last_report.counted[k]
       IN ThresholdOf(r) > 0 => ~ (r.ab /\ r.ba)
  /\ \A k \in DOMAIN last_report.counted :
       LET r == last_report.counted[k]
           o == PairOpportunity("BTC/USDT", r.a, r.b)
       IN r.cfg = ConfigPy
            => (r.ab <=> o.net_spread_percent >= o.effective_min_spread)

\* C38 as stated: with 0 < bid <= ask on both venues and non-negative
\* fees, slippage and margin, a scan never emits both directions.
C38_OneDirectionWhenThresholdNonNegative ==
  \A k \in OrderedQuoteScans :
    LET r == last_report.counted[k]
    IN ThresholdOf(r) >= 0 => ~ (r.ab /\ r.ba)

\* under config.py as shipped buying on kraken at 100 and selling on okx at
\* 103 is emitted and the opposite direction is not
C38_Witness ==
  \E k \in OrderedQuoteScans :
    LET r == last_report.counted[k]
    IN /\ r.cfg = ConfigPy
       /\ r.a.ask = 100 /\ r.b.bid = 103
       /\ r.ab /\ ~ r.ba


(***************************************************************************)
(* SpecRange: the parameter store of one process from get_store() on:      *)
(* initialize() loads the default table or fails, and then updates through *)
(* the API (in range, on the bounds, out of range), maybe_reload() calls   *)
(* and get_param calls come in any order.                                  *)
(***************************************************************************)
\* MIN_SPREAD_PERCENT is stored with the bounds [0.05, 5.0]
RangeRequests ==
  {<<"MIN_SPREAD_PERCENT", TRUE, v>> : v \in {4, 5, 500, 501}}

InitRange ==
  /\ InitWith({DEFAULT_PARAMETERS})
  /\ sizer_call = NoSizerCall
  /\ pc = "get_store"
  /\ EmptyHistory

NextRange ==
  \/ \E outcome \in FetchOutcomes : InitializeThen("params", outcome)
  \/ \E r \in RangeRequests : ApiUpdateParam(r[1], r[2], r[3])
  \/ AdvanceClock(RELOAD_INTERVAL)
  \/ \E outcome \in FetchOutcomes : MaybeReload(outcome)
  \/ \E name \in GetNames, default \in GetDefaults, select_ok \in BOOLEAN :
       GetParamAt("params", name, default, select_ok)

SpecRange == InitRange /\ [][NextRange]_vars

\* a value lies within the bounds stored for the parameter
WithinStoredBounds(name, value) ==
  /\ name \in DOMAIN db_parameters
  /\ db_parameters[name].min <= value
  /\ value <= db_parameters[name].max

\* C39: starting from the default table, after any updates (accepted or
\* rejected), reloads and cache reads, every value the cache holds lies
\* within the inclusive [min, max] stored for its parameter; so does every
\* value of the table, whose bounds are never changed.
C39_CachedValuesWithinBounds ==
  /\ \A n \in DOMAIN store.params : WithinStoredBounds(n, store.params[n])
  /\ \A n \in DOMAIN db_parameters :
       /\ WithinStoredBounds(n, db_parameters[n].value)
       /\ db_parameters[n].min = DEFAULT_PARAMETERS[n].min
       /\ db_parameters[n].max = DEFAULT_PARAMETERS[n].max

\* the cache holds the upper bound, taken over by a reload, and the update
\* to a value just above it has been rejected
C39_Witness ==
  /\ "MIN_SPREAD_PERCENT" \in DOMAIN store.params
  /\ store.params["MIN_SPREAD_PERCENT"]
       = DEFAULT_PARAMETERS["MIN_SPREAD_PERCENT"].max
  /\ last_report.op = "api_update_param"
  /\ last_report.arg[3] > DEFAULT_PARAMETERS["MIN_SPREAD_PERCENT"].max
  /\ ~ last_report.ok
  /\ reader.op = "get_param"


(***************************************************************************)
(* SpecProfit: the decision loop under config.py as shipped, kraken        *)
(* quoting 1000 and okx quoting at, just below, just above and well above  *)
(* the emit threshold (raw spread 1.02 % for this pair), or kraken quoting *)
(* 10000 and okx 10101 or 10102; orders fill or fail.                      *)
(***************************************************************************)
ProfitMarkets ==
  {[kraken |-> Quote(1000, 1000), okx |-> Quote(p, p)] :
     p \in {1000, 1010, 1011, 1020}}
    \cup {[kraken |-> Quote(10000, 10000), okx |-> Quote(p, p)] :
            p \in {10101, 10102}}
\* position sizes, in tenths of a unit of the base asset
ProfitSizes == 1..5

NextProfit ==
  \/ LoopTop
  \/ ApiErrorCheck
  \/ TradingEnabledCheck
  \/ RefreshBalances(BreakerBalances)
  \/ DailyLossCheck
  \/ \E tk \in ProfitMarkets : ScanSymbol(tk)
  \/ StallCheck
  \/ ShadowRecord
  \/ ExecuteBegin
  \/ \E outcome \in BreakerOutcomes : SubmitBuy(outcome)
  \/ \E outcome \in BreakerOutcomes : SubmitSell(outcome)
  \/ Sleep(REFRESH_INTERVAL_SECONDS)

SpecProfit == InitBreaker /\ [][NextProfit]_vars

\* C40: under config.py as shipped every pair the scanner emits would make
\* an estimated net profit > 0 at any position size, every trade that
\* reaches completed has estimated net profit > 0 and raises the daily PnL
\* by it, the daily PnL never decreases, and the daily-loss check never
\* fails.
C40_CompletedTradesProfit ==
  /\ [] (\A k \in DOMAIN evaluated :
           evaluated[k].emitted =>
             \A size \in ProfitSizes :
               EstimatedNetProfit(
                 [position_size |-> size,
                  buy_price |-> evaluated[k].opp.buy_price,
                  sell_price |-> evaluated[k].opp.sell_price]) > 0)
  /\ [] (\A k \in DOMAIN trade_history :
           trade_history[k].status = "completed" =>
             /\ trade_history[k].estimated_profit_usd > 0
             /\ trade_history[k].estimated_profit_usd
                  = EstimatedNetProfit(trade_history[k]))
  /\ [][TradeEnds("completed") => DailyPnl' > DailyPnl]_vars
  /\ [][DailyPnl' >= DailyPnl]_vars
  /\ [] (check_daily_loss_limit(DailyPnl) /\ pc # "halted")

\* a trade on the narrowest spread that is emitted at this price (1000
\* against 1011) was completed and the daily PnL is its profit
C40_Witness ==
  \E k \in DOMAIN trade_history :
    /\ trade_history[k].status = "completed"
    /\ trade_history[k].buy_price = 1000
    /\ trade_history[k].sell_price = 1011
    /\ DailyPnl = trade_history[k].estimated_profit_usd
    /\ DailyPnl > 0

=============================================================================
